---- MODULE Spec2Model ----
(***************************************************************************)
(* A model of the LSD server (src/server.js and its Telegram-payments      *)
(* revision src/unnamed/part_001): the quota and tier resolver, the        *)
(* subscription ledger, the sweep worker and the sync reconciler.          *)
(*                                                                         *)
(* Every `await supabase...` of the code is one atomic step of the store.  *)
(* The synchronous code between two awaits runs at one instant: an action  *)
(* executes the pending store call of a request and then runs the handler  *)
(* up to the next store call, whose arguments it leaves in the request's   *)
(* record.  The clock may advance between any two steps.                   *)
(*                                                                         *)
(* Time is counted in minutes since the epoch (UTC); a NULL timestamp is   *)
(* NullTs, the value the code itself maps NULL to.                         *)
(***************************************************************************)
EXTENDS Integers, Sequences, FiniteSets, Bags, TLC

VARIABLES
    now,        \* the wall clock (Date.now())
    events,     \* how many events the environment has produced: requests that
                \* arrived, advances of the clock, timer firings of the quota worker
    users,      \* table lsd_users: tg_id -> row
    payments,   \* table lsd_payments: set of <<tg_id, provider_charge_id>>
    procs,      \* the requests in flight: slot -> request record
    sweep,      \* the quota worker: its position and the arguments it computed
    stats,      \* observer of the consume scenario: the calls made and their results
    chats,      \* table lsd_chats: set of rows, at most one per (tg_id, chat_id)
    messages,   \* table lsd_messages: bag of rows (rows without msg_id may repeat)
    tasks,      \* table lsd_tasks_state: tg_id -> document
    client      \* the mini-app of one device: its chat cache, its pull in flight
                \* and its push timer

\* The tables of the sync reconciler
syncVars == <<chats, messages, tasks>>

vars == <<now, events, users, payments, procs, sweep, stats, chats, messages, tasks,
         client>>

-----------------------------------------------------------------------------
(* Bounds of the model *)

MaxEvents == 4
MaxLeft == 3

\* The client's timer clock stops at MaxClock ms; scheduleSyncPush is called at
\* most MaxCalls times
MaxClock == 2000
MaxCalls == 3

-----------------------------------------------------------------------------
(* Constants of the program *)

MIN_PER_DAY == 24 * 60

RESET_TZ_OFFSET_MIN == 5 * 60

\* The time zone of the server process, which Date.prototype.setHours uses:
\* minutes east of UTC.
SERVER_TZ_OFFSET_MIN == 0 * 60

NullTs == 0

Fin(n) == [fin |-> TRUE, n |-> n]

Infinity == [fin |-> FALSE, n |-> 0]

DAILY_LIMITS ==
    [free      |-> [plans |-> Fin(3),   media |-> Fin(3)],
     premium   |-> [plans |-> Fin(30),  media |-> Fin(30)],
     developer |-> [plans |-> Infinity, media |-> Infinity]]

Tiers == {"free", "premium", "developer"}

Kinds == {"plans", "media"}

Plans == {"month", "year"}

ChargeIds == {"ch1"}

TgIds == {1}

\* The only user of the model's tables
TheUser == CHOOSE tg \in TgIds : TRUE

\* The slots for requests in flight
Procs == {1, 2}

-----------------------------------------------------------------------------
(* Pure functions *)

Max(a, b) == IF a >= b THEN a ELSE b

Min(a, b) == IF a <= b THEN a ELSE b

\* Variant: premium is still active at the instant premium_until
isPremiumActive_atExpiry(user, t) ==
    LET until == user.premium_until
    IN  until # NullTs /\ until >= t

isPremiumActive(user, t) ==
    LET until == user.premium_until
    IN  until # NullTs /\ until > t

\* String.prototype.toLowerCase, on the tier labels a row can hold
toLowerCase(str) ==
    CASE str = "Developer" -> "developer"
      [] str = "PREMIUM"   -> "premium"
      [] OTHER             -> str

effectiveTier(user, t) ==
    LET tier == toLowerCase(user.tier)
    IN  IF tier = "developer" THEN "developer"
        ELSE IF isPremiumActive(user, t) THEN "premium" ELSE "free"

\* new Date(ms + offset), setHours(24, 0, 0, 0) in the server's zone, minus offset
nextAlmatyMidnightAt(ms, tz) ==
    LET local == ms + RESET_TZ_OFFSET_MIN
        wall  == local + tz
        next  == (wall \div MIN_PER_DAY) * MIN_PER_DAY + MIN_PER_DAY - tz
    IN  next - RESET_TZ_OFFSET_MIN

nextAlmatyMidnightISO(ms) == nextAlmatyMidnightAt(ms, SERVER_TZ_OFFSET_MIN)

planToDays(plan) == IF plan = "year" THEN 365 ELSE 30

addDaysISO(base, days) == base + days * MIN_PER_DAY

leftField(kind) == IF kind = "media" THEN "media_left" ELSE "plans_left"

-----------------------------------------------------------------------------
(* Rows and request records *)

NoUser ==
    [exists |-> FALSE, tier |-> "", premium_until |-> NullTs,
     plans_left |-> 0, media_left |-> 0, quota_next_reset_at |-> NullTs,
     current_plan |-> ""]

UserRow(tier, until, plans, media, reset) ==
    [exists |-> TRUE, tier |-> tier, premium_until |-> until,
     plans_left |-> plans, media_left |-> media, quota_next_reset_at |-> reset,
     current_plan |-> ""]

\* SELECT * FROM lsd_users WHERE tg_id = ... (maybeSingle)
Lookup(tg) == IF tg \in DOMAIN users THEN users[tg] ELSE NoUser

NoArg == [f |-> "", v |-> 0, until |-> NullTs, reset |-> NullTs, plans |-> Infinity, media |-> Infinity]

\* JSON values of an invoice payload's tg_id: k is the type, n the number, s the string
JNumber(n) == [k |-> "number", n |-> n, s |-> ""]

JString(str) == [k |-> "string", n |-> 0, s |-> str]

JNull == [k |-> "null", n |-> 0, s |-> ""]

JUndefined == [k |-> "undefined", n |-> 0, s |-> ""]

NaN == [fin |-> FALSE, n |-> 0]

\* Number(v): a string of digits is its number, the empty string and null are 0,
\* undefined and any other string are NaN
Number(v) ==
    CASE v.k = "number"    -> Fin(v.n)
      [] v.k = "null"      -> Fin(0)
      [] v.k = "undefined" -> NaN
      [] v.k = "string"    -> IF v.s = "" THEN Fin(0)
                              ELSE IF v.s = "1" THEN Fin(1)
                              ELSE NaN

\* An invoice payload after JSON.parse ({} when it does not parse)
Payload(tg, plan) == [tg_id |-> tg, plan |-> plan]

NoPayload == Payload(JUndefined, "")

\* Number.isFinite(tg_id) && (plan === "month" || plan === "year")
payloadOk(payload) ==
    Number(payload.tg_id).fin /\ (payload.plan = "month" \/ payload.plan = "year")

\* process.env.TELEGRAM_WEBHOOK_SECRET
TELEGRAM_WEBHOOK_SECRET == "s1"

\* Variant: no secret token check
secretOk_anyHeader(got) == TRUE

\* The secret token check of the webhook
secretOk(got) == TELEGRAM_WEBHOOK_SECRET = "" \/ got = TELEGRAM_WEBHOOK_SECRET

\* A sync request without a body
NoBody == [chats_upsert |-> <<>>, messages_upsert |-> <<>>, tasks_state |-> ""]

Idle ==
    [pc |-> "idle", op |-> "", tg_id |-> 0, kind |-> "", plan |-> "", charge |-> "",
     user |-> NoUser, nextReset |-> NullTs, arg |-> NoArg, res |-> "",
     \* /api/sync/push: the request body and the rows built from it
     body |-> NoBody, rows |-> <<>>, withId |-> <<>>, withoutId |-> <<>>,
     \* /api/sync/pull: the cursor and the lists read so far
     since |-> NullTs, chats |-> <<>>, messages |-> <<>>, tasks_state |-> "",
     server_time |-> NullTs,
     had |-> <<>>,        \* the messages an earlier pull gave the device
     \* /telegram/webhook: the secret header, the kind of update, its invoice
     \* payload, and whether the Telegram API call of the handler succeeds
     secret |-> "", update |-> "", payload |-> NoPayload, tgApi |-> "",
     \* /api/plan/create, /api/chat/attach and /api/chat/send: the chat, the kind
     \* of file, the text and msg_id sent, what the language model's API will
     \* answer, whether consumeQuota returned ok, and the calls made to the model
     chat_id |-> "", file |-> "", text |-> "", msg_id |-> "",
     gemini |-> "", granted |-> FALSE, llm |-> 0, answer |-> "",
     before |-> NoUser,   \* the user's row when the request arrived
     \* observers, not program state:
     dup |-> FALSE,       \* the charge was already recorded when the update arrived
     calledAt |-> NullTs, \* when the resolve was called
     seenAt |-> NullTs,   \* when the resolve made its due check
     tAct |-> NullTs]     \* when activatePremiumForUser computed the new expiry

\* res.json(...): the handler has its response
Done(pr, res) == [pr EXCEPT !.pc = "done", !.res = res]

\* Variant: the status of the webhook's response follows the outcome
WebhookStatus_byOutcome(q) ==
    IF q.res = "bad_secret" THEN 401
    ELSE IF q.res \in {"ok", "rejected"} THEN 200
    ELSE 500

\* The HTTP status of a response of POST /telegram/webhook: 401 to a wrong
\* secret and 200 otherwise, its catch included
WebhookStatus(q) == IF q.res = "bad_secret" THEN 401 ELSE 200

\* The HTTP status of a response: 400 for a request that fails the validation,
\* 403 for a refused consume, 500 from a handler's catch
HttpStatus(q) ==
    IF q.op \in {"webhook", "precheckout"} THEN WebhookStatus(q)
    ELSE IF q.res = "ok" THEN 200
    ELSE IF q.res \in {"tg_id_required", "chat_id_required", "file_required",
                       "text_required"} THEN 400
    ELSE IF q.res \in {"no_plans_left", "no_media_left"} THEN 403
    ELSE 500

-----------------------------------------------------------------------------
(* The sync reconciler: rows, and the store's upsert, insert and ordered     *)
(* select.  A string the request leaves out, or that is not a string, is ""  *)
(* (safeStr); a timestamp it leaves out is NullTs.                           *)

\* limit of listChats and of listMessages
CHATS_LIMIT == 200

MESSAGES_LIMIT == 4000

DEFAULT_TITLE == "Chat"

DEFAULT_EMOJI == "bubble"

\* loadTasksState and saveTasksState: { groups: [] }
EMPTY_STATE == "{groups:[]}"

\* upsertChats: the rows built from chats_upsert at time t
chatRows(tg, cs, t) ==
    LET row(c) == [tg_id |-> tg, chat_id |-> c.chat_id,
                   title |-> IF c.title = "" THEN DEFAULT_TITLE ELSE c.title,
                   emoji |-> IF c.emoji = "" THEN DEFAULT_EMOJI ELSE c.emoji,
                   updated_at |-> IF c.updated_at = NullTs THEN t ELSE c.updated_at]
    IN  SelectSeq([i \in DOMAIN cs |-> row(cs[i])], LAMBDA r : r.chat_id # "")

\* upsertMessages: the row built from one element of messages_upsert at time t
msgRow(tg, m, t) ==
    [tg_id |-> tg, chat_id |-> m.chat_id, msg_id |-> m.msg_id, role |-> m.role,
     content |-> m.content,
     created_at |-> IF m.created_at = NullTs THEN t ELSE m.created_at]

\* A variant: any role that is not empty passes
msgOk_anyRole(row) ==
    /\ row.chat_id # ""
    /\ row.role # ""
    /\ row.content # ""

msgOk(row) ==
    /\ row.chat_id # ""
    /\ row.role # ""
    /\ (row.role = "user" \/ row.role = "assistant")
    /\ row.content # ""

msgRows(tg, ms, t) == SelectSeq([i \in DOMAIN ms |-> msgRow(tg, ms[i], t)], msgOk)

\* Two rows of one statement have the same key
SameKeyTwice(rows, Key(_)) ==
    \E i, j \in DOMAIN rows : i < j /\ Key(rows[i]) = Key(rows[j])

chatKey(r) == <<r.tg_id, r.chat_id>>

\* A variant: messages keyed by msg_id alone
msgKey_ofAnyUser(r) == <<r.msg_id>>

msgKey(r) == <<r.tg_id, r.msg_id>>

\* .upsert(rows, { onConflict: "tg_id,chat_id" })
RECURSIVE UpsertChatRows(_, _)
UpsertChatRows(table, rows) ==
    IF rows = <<>> THEN table
    ELSE UpsertChatRows({r \in table : chatKey(r) # chatKey(Head(rows))} \cup {Head(rows)},
                        Tail(rows))

\* The bag without the rows of a key
WithoutKey(bag, key) ==
    [r \in {x \in DOMAIN bag : msgKey(x) # key} |-> bag[r]]

\* A variant: the upsert as a plain insert
RECURSIVE UpsertMsgRows_append(_, _)
UpsertMsgRows_append(bag, rows) ==
    IF rows = <<>> THEN bag
    ELSE UpsertMsgRows_append(bag (+) SetToBag({Head(rows)}), Tail(rows))

\* .upsert(withId, { onConflict: "tg_id,msg_id" })
RECURSIVE UpsertMsgRows(_, _)
UpsertMsgRows(bag, rows) ==
    IF rows = <<>> THEN bag
    ELSE UpsertMsgRows(WithoutKey(bag, msgKey(Head(rows))) (+) SetToBag({Head(rows)}),
                       Tail(rows))

\* A variant: an insert that skips a row the table already holds
RECURSIVE InsertMsgRows_distinct(_, _)
InsertMsgRows_distinct(bag, rows) ==
    IF rows = <<>> THEN bag
    ELSE InsertMsgRows_distinct(IF Head(rows) \in DOMAIN bag THEN bag
                                ELSE bag (+) SetToBag({Head(rows)}),
                                Tail(rows))

\* .insert(withoutId)
RECURSIVE InsertMsgRows(_, _)
InsertMsgRows(bag, rows) ==
    IF rows = <<>> THEN bag
    ELSE InsertMsgRows(bag (+) SetToBag({Head(rows)}), Tail(rows))

\* ORDER BY updated_at DESC: every order the store may return (rows with equal
\* updated_at come in any order)
RECURSIVE ByUpdatedAtDesc(_)
ByUpdatedAtDesc(S) ==
    IF S = {} THEN {<<>>}
    ELSE UNION {{<<r>> \o rest : rest \in ByUpdatedAtDesc(S \ {r})} :
                r \in {x \in S : \A y \in S : y.updated_at <= x.updated_at}}

\* A variant: no ORDER BY, the rows in any order
RECURSIVE InAnyOrder(_)
InAnyOrder(S) ==
    IF S = {} THEN {<<>>}
    ELSE UNION {{<<r>> \o rest : rest \in InAnyOrder(S \ {r})} : r \in S}

\* ORDER BY created_at ASC over runs of equal rows [row, n]
RECURSIVE ByCreatedAtAsc(_)
ByCreatedAtAsc(S) ==
    IF S = {} THEN {<<>>}
    ELSE UNION {{<<r>> \o rest : rest \in ByCreatedAtAsc(S \ {r})} :
                r \in {x \in S : \A y \in S : x.row.created_at <= y.row.created_at}}

\* LIMIT k over runs of equal rows
RECURSIVE Limit(_, _)
Limit(runs, k) ==
    IF runs = <<>> \/ k <= 0 THEN <<>>
    ELSE IF Head(runs).n <= k THEN <<Head(runs)>> \o Limit(Tail(runs), k - Head(runs).n)
    ELSE <<[Head(runs) EXCEPT !.n = k]>>

\* listChats: the lists the SELECT may return
listChats(tg) ==
    LET mine == {[chat_id |-> r.chat_id, title |-> r.title, emoji |-> r.emoji,
                  updated_at |-> r.updated_at] : r \in {x \in chats : x.tg_id = tg}}
    IN  {SubSeq(l, 1, Min(Len(l), CHATS_LIMIT)) : l \in ByUpdatedAtDesc(mine)}

\* A variant: listMessages without the cursor
listMessages_noCursor(tg, since, limit) ==
    LET runs == {[row |-> [chat_id |-> r.chat_id, msg_id |-> r.msg_id, role |-> r.role,
                           content |-> r.content, created_at |-> r.created_at],
                  n |-> messages[r]] : r \in {x \in DOMAIN messages : x.tg_id = tg}}
    IN  {Limit(l, limit) : l \in ByCreatedAtAsc(runs)}

\* listMessages: the lists the SELECT may return, as runs of equal rows
listMessages(tg, since, limit) ==
    LET mine == {r \in DOMAIN messages :
                    r.tg_id = tg /\ (since # NullTs => r.created_at >= since)}
        Proj(r) == [chat_id |-> r.chat_id, msg_id |-> r.msg_id, role |-> r.role,
                    content |-> r.content, created_at |-> r.created_at]
        runs == {[row |-> Proj(r), n |-> messages[r]] : r \in mine}
    IN  {Limit(l, limit) : l \in ByCreatedAtAsc(runs)}

-----------------------------------------------------------------------------
(* Variants of the program's functions.  Each one is a plausible way the    *)
(* code could have been written otherwise; the properties below distinguish *)
(* the code from them.                                                      *)

(* The handler after consumeQuota returned ok: /api/plan/create loads the     *)
(* chat's messages, /api/chat/attach looks for the chat                       *)

AfterConsume(pr) ==
    CASE pr.op = "plan"   -> [pr EXCEPT !.pc = "loadMsgs"]
      [] pr.op = "attach" -> [pr EXCEPT !.pc = "getChat"]
      [] OTHER            -> Done(pr, "ok")

\* consumeQuota that refuses only below zero
consumeQuota_belowZero(pr, t) ==
    LET user == pr.user
        tier == effectiveTier(user, t)
        lim  == DAILY_LIMITS[tier]
        left == user[IF pr.kind = "media" THEN "media_left" ELSE "plans_left"]
    IN  IF tier = "developer" \/ ~lim[pr.kind].fin
        THEN AfterConsume([pr EXCEPT !.granted = TRUE])
        ELSE IF left < 0
             THEN [pr EXCEPT !.pc = "done",
                             !.res = IF pr.kind = "media" THEN "no_media_left" ELSE "no_plans_left"]
             ELSE [pr EXCEPT !.pc = "decr",
                             !.arg = [NoArg EXCEPT !.f = IF pr.kind = "media" THEN "media_left"
                                                     ELSE "plans_left",
                                               !.v = left - 1]]

\* an UPDATE that decrements the stored counter instead of writing left - 1
decrementRow_relative(row, arg) == [row EXCEPT ![arg.f] = @ - 1]

\* activatePremiumForUser that always counts from the time of activation
activatePremiumForUser_fromNow(pr, t) ==
    [pr EXCEPT !.pc = "activate", !.tAct = t,
               !.arg = [NoArg EXCEPT !.until = t + (IF pr.plan = "year" THEN 365 ELSE 30) * MIN_PER_DAY,
                                 !.reset = nextAlmatyMidnightISO(t),
                                 !.plans = DAILY_LIMITS.premium.plans,
                                 !.media = DAILY_LIMITS.premium.media]]

-----------------------------------------------------------------------------
(* consumeQuota after the resolve, up to its UPDATE *)

\* A variant: the handler goes on when consumeQuota has nothing left to give
consumeQuota_unchecked(pr, t) ==
    LET user == pr.user
        tier == effectiveTier(user, t)
        lim  == DAILY_LIMITS[tier]
        left == user[leftField(pr.kind)]
    IN  IF tier = "developer" \/ ~lim[pr.kind].fin
        THEN AfterConsume([pr EXCEPT !.granted = TRUE])
        ELSE IF left <= 0
             THEN AfterConsume(pr)
             ELSE [pr EXCEPT !.pc = "decr",
                             !.arg = [NoArg EXCEPT !.f = leftField(pr.kind), !.v = left - 1]]

consumeQuota(pr, t) ==
    LET user == pr.user
        tier == effectiveTier(user, t)
        lim  == DAILY_LIMITS[tier]
        left == user[leftField(pr.kind)]
    IN  IF tier = "developer" \/ ~lim[pr.kind].fin
        THEN AfterConsume([pr EXCEPT !.granted = TRUE])
        ELSE IF left <= 0
             THEN Done(pr, IF pr.kind = "media" THEN "no_media_left" ELSE "no_plans_left")
             ELSE [pr EXCEPT !.pc = "decr",
                             !.arg = [NoArg EXCEPT !.f = leftField(pr.kind), !.v = left - 1]]

(* activatePremiumForUser after the resolve, up to its UPDATE *)

\* Variant: the activation leaves the counters as the resolve returned them
activatePremiumForUser_keepCounters(pr, t) ==
    LET user == pr.user
        days == planToDays(pr.plan)
        base == IF isPremiumActive(user, t) THEN user.premium_until ELSE t
    IN  [pr EXCEPT !.pc = "activate", !.tAct = t,
                   !.arg = [NoArg EXCEPT !.until = addDaysISO(base, days),
                                         !.reset = nextAlmatyMidnightISO(t),
                                         !.plans = Fin(user.plans_left),
                                         !.media = Fin(user.media_left)]]

activatePremiumForUser(pr, t) ==
    LET user == pr.user
        days == planToDays(pr.plan)
        base == IF isPremiumActive(user, t) THEN user.premium_until ELSE t
        lim  == DAILY_LIMITS.premium
    IN  [pr EXCEPT !.pc = "activate", !.tAct = t,
                   !.arg = [NoArg EXCEPT !.until = addDaysISO(base, days),
                                         !.reset = nextAlmatyMidnightISO(t),
                                         !.plans = lim.plans, !.media = lim.media]]

(* /api/sync/push after the resolve: upsertChats, upsertMessages and         *)
(* saveTasksState, each up to its store call.  A call with nothing to write  *)
(* returns without a store call.                                             *)

\* A tasks_state that is an object
Docs == {"d1", "d2"}

saveTasksState(pr) ==
    IF pr.body.tasks_state # "" THEN [pr EXCEPT !.pc = "saveTasks"] ELSE Done(pr, "ok")

insertWithoutId(pr) ==
    IF pr.withoutId # <<>> THEN [pr EXCEPT !.pc = "insertMsgs"] ELSE saveTasksState(pr)

upsertMessages(pr, t) ==
    LET rows == msgRows(pr.tg_id, pr.body.messages_upsert, t)
        q    == [pr EXCEPT !.withId = SelectSeq(rows, LAMBDA r : r.msg_id # ""),
                           !.withoutId = SelectSeq(rows, LAMBDA r : r.msg_id = "")]
    IN  IF q.withId # <<>> THEN [q EXCEPT !.pc = "upsertMsgs"] ELSE insertWithoutId(q)

upsertChats(pr, t) ==
    LET rows == chatRows(pr.tg_id, pr.body.chats_upsert, t)
    IN  IF rows # <<>> THEN [pr EXCEPT !.pc = "upsertChats", !.rows = rows]
        ELSE upsertMessages(pr, t)

(* What the handler does with the row getOrCreateUserAndFreshen returned *)

AfterFreshen(pr, t) ==
    CASE pr.op = "init"    -> Done(pr, "ok")
      [] pr.op = "consume" -> consumeQuota(pr, t)
      [] pr.op = "plan"    -> consumeQuota(pr, t)
      [] pr.op = "attach"  -> consumeQuota(pr, t)
      [] pr.op = "send"    -> [pr EXCEPT !.pc = "getChat"]
      [] pr.op = "webhook" -> activatePremiumForUser(pr, t)
      [] pr.op = "precheckout" -> Done(pr, IF pr.tgApi = "ok" THEN "ok" ELSE "tg_error")
      [] pr.op = "push"    -> upsertChats(pr, t)
      [] pr.op = "pull"    -> [pr EXCEPT !.pc = "listChats"]

\* A variant: the due check that takes the limits of the stored tier label
DueCheck_storedTier(pr, t) ==
    LET user == pr.user
        lim  == DAILY_LIMITS[IF user.tier \in Tiers THEN user.tier ELSE "free"]
    IN  IF t >= user.quota_next_reset_at
        THEN [pr EXCEPT !.pc = "reset", !.seenAt = t,
                        !.arg = [NoArg EXCEPT !.reset = nextAlmatyMidnightISO(t),
                                              !.plans = lim.plans, !.media = lim.media]]
        ELSE AfterFreshen(pr, t)

(* getOrCreateUserAndFreshen step 4: the due check and the patch it builds *)

\* A variant: no due check, the row is returned as it was read
DueCheck_asRead(pr, t) == AfterFreshen(pr, t)

DueCheck(pr, t) ==
    LET user == pr.user
        due  == t >= user.quota_next_reset_at
        tier == effectiveTier(user, t)
        lim  == DAILY_LIMITS[tier]
    IN  IF due
        THEN [pr EXCEPT !.pc = "reset", !.seenAt = t,
                        !.arg = [NoArg EXCEPT !.reset = nextAlmatyMidnightISO(t),
                                              !.plans = lim.plans, !.media = lim.media]]
        ELSE AfterFreshen(pr, t)

(* getOrCreateUserAndFreshen after its SELECT *)

AfterSelect(pr, existing, t) ==
    LET q == [pr EXCEPT !.nextReset = nextAlmatyMidnightISO(t), !.user = existing,
                        !.calledAt = t]
    IN  IF ~existing.exists THEN [q EXCEPT !.pc = "insert"]
        ELSE IF existing.quota_next_reset_at = NullTs THEN [q EXCEPT !.pc = "patch"]
        ELSE DueCheck(q, t)

\* Variant: the lazy reset moves the boundary and leaves the counters
ApplyPatch_boundaryOnly(row, arg) == [row EXCEPT !.quota_next_reset_at = arg.reset]

\* UPDATE lsd_users SET <patch> of the lazy reset: a limit that is not finite is
\* left out of the patch
ApplyPatch(row, arg) ==
    [row EXCEPT !.quota_next_reset_at = arg.reset,
                !.plans_left = IF arg.plans.fin THEN arg.plans.n ELSE @,
                !.media_left = IF arg.media.fin THEN arg.media.n ELSE @]

-----------------------------------------------------------------------------
(* The observer of the consume scenario: it counts calls and results, and   *)
(* is switched off (stats.on = FALSE) outside that scenario.                *)

NoStats ==
    [on |-> FALSE, row0 |-> NoUser, started |-> 0, overlap |-> FALSE,
     \* the last response sent, when responses are logged
     log |-> FALSE, sent |-> 0, last |-> Idle, status |-> 0,
     plans |-> [done |-> 0, granted |-> 0, denied |-> 0],
     media |-> [done |-> 0, granted |-> 0, denied |-> 0]]

Busy == {p \in Procs : procs[p].pc # "idle"}

WatchStart(st, p) ==
    IF ~st.on THEN st
    ELSE [st EXCEPT !.started = @ + 1, !.overlap = @ \/ (Busy \ {p} # {})]

\* The observer logs a response
WatchReply(st, q) ==
    IF ~st.log \/ q.pc # "done" THEN st
    ELSE [st EXCEPT !.sent = @ + 1, !.last = q, !.status = HttpStatus(q)]

WatchEnd(st, q) ==
    IF ~st.on \/ q.pc # "done" \/ q.op # "consume" THEN WatchReply(st, q)
    ELSE [WatchReply(st, q) EXCEPT ![q.kind] =
            [done    |-> @.done + 1,
             granted |-> @.granted + (IF q.res = "ok" THEN 1 ELSE 0),
             denied  |-> @.denied +
                 (IF q.res = (IF q.kind = "media" THEN "no_media_left" ELSE "no_plans_left")
                  THEN 1 ELSE 0)]]

\* The request's next position; a request that has its response leaves
Settle(p, q) ==
    /\ procs' = [procs EXCEPT ![p] = IF q.pc = "done" THEN Idle ELSE q]
    /\ stats' = WatchEnd(stats, q)

-----------------------------------------------------------------------------
(* Requests *)

\* One more event of the environment
Event == events < MaxEvents /\ events' = events + 1

\* A request that arrives takes the first free slot
Free(p) == procs[p].pc = "idle" /\ \A q \in Procs : q < p => procs[q].pc # "idle"

Arrive(op, tg, kind, plan, charge) ==
    [Idle EXCEPT !.op = op, !.tg_id = tg, !.kind = kind, !.plan = plan, !.charge = charge,
                 !.dup = (<<tg, charge>> \in payments)]

\* getOrCreateUserAndFreshen: SELECT
SelectUser(pr) == AfterSelect(pr, Lookup(pr.tg_id), now)

\* POST /api/user/init
UserInit(p, tg) ==
    /\ Free(p)
    /\ Event
    /\ Settle(p, SelectUser(Arrive("init", tg, "", "", "")))
    /\ UNCHANGED <<now, users, payments, sweep, syncVars, client>>

\* POST /api/plan/create and /api/chat/attach, up to the end of consumeQuota
Consume(p, tg, kind) ==
    /\ Free(p)
    /\ Event
    /\ LET q == SelectUser(Arrive("consume", tg, kind, "", ""))
       IN  /\ procs' = [procs EXCEPT ![p] = IF q.pc = "done" THEN Idle ELSE q]
           /\ stats' = WatchEnd(WatchStart(stats, p), q)
    /\ UNCHANGED <<now, users, payments, sweep, syncVars, client>>

\* POST /telegram/webhook with message.successful_payment and a valid payload:
\* INSERT INTO lsd_payments, where a unique conflict is an error the handler ignores
SuccessfulPayment(p, tg, plan, charge) ==
    /\ Free(p)
    /\ Event
    /\ payments' = payments \cup {<<tg, charge>>}
    /\ Settle(p, [Arrive("webhook", tg, "", plan, charge) EXCEPT
                     !.pc = "select", !.secret = TELEGRAM_WEBHOOK_SECRET,
                     !.update = "successful_payment"])
    /\ UNCHANGED <<now, users, sweep, syncVars, client>>

\* POST /telegram/webhook with a secret header that is missing or wrong: 401
WebhookBadSecret(p, got) ==
    /\ Free(p)
    /\ Event
    /\ ~secretOk(got)
    /\ Settle(p, Done([Arrive("webhook", 0, "", "", "") EXCEPT !.secret = got], "bad_secret"))
    /\ UNCHANGED <<now, users, payments, sweep, syncVars, client>>

\* POST /telegram/webhook with another update than a pre_checkout_query or a
\* payment with a payload that passes the validation: nothing to do
WebhookIgnored(p, got, update, payload) ==
    /\ Free(p)
    /\ Event
    /\ secretOk(got)
    /\ \/ update = "successful_payment" /\ ~payloadOk(payload)
       \/ update = "other" /\ payload = NoPayload
    /\ Settle(p, Done([Arrive("webhook", 0, "", "", "") EXCEPT
                        !.secret = got, !.update = update, !.payload = payload], "ok"))
    /\ UNCHANGED <<now, users, payments, sweep, syncVars, client>>

\* POST /telegram/webhook with update.pre_checkout_query: the validation, then
\* answerPreCheckoutQuery(false), or getOrCreateUserAndFreshen (its SELECT) and
\* answerPreCheckoutQuery(true); tgApi says whether the Telegram API call succeeds
PreCheckout(p, got, payload, tgApi) ==
    /\ Free(p)
    /\ Event
    /\ secretOk(got)
    /\ LET pr == [Arrive("precheckout", Number(payload.tg_id).n, "", "", "") EXCEPT
                    !.secret = got, !.update = "pre_checkout_query",
                    !.payload = payload, !.tgApi = tgApi]
       IN  IF ~payloadOk(payload)
           THEN Settle(p, Done(pr, IF tgApi = "ok" THEN "rejected" ELSE "tg_error"))
           ELSE Settle(p, SelectUser(pr))
    /\ UNCHANGED <<now, users, payments, sweep, syncVars, client>>

\* activatePremiumForUser: the SELECT of its getOrCreateUserAndFreshen
ActivateSelect(p) ==
    /\ procs[p].pc = "select"
    /\ Settle(p, SelectUser(procs[p]))
    /\ UNCHANGED <<now, events, users, payments, sweep, syncVars, client>>

\* getOrCreateUserAndFreshen: INSERT of a new row (tg_id is the table's key)
InsertUser(p) ==
    LET pr  == procs[p]
        lim == DAILY_LIMITS.free
        row == UserRow("free", NullTs, lim.plans.n, lim.media.n, pr.nextReset)
    IN  /\ pr.pc = "insert"
        /\ IF pr.tg_id \in DOMAIN users
           THEN /\ Settle(p, Done(pr, "server_error"))
                /\ UNCHANGED users
           ELSE /\ users' = (pr.tg_id :> row) @@ users
                /\ Settle(p, AfterFreshen([pr EXCEPT !.user = row], now))
        /\ UNCHANGED <<now, events, payments, sweep, syncVars, client>>

\* getOrCreateUserAndFreshen: UPDATE of a row without quota_next_reset_at
PatchUser(p) ==
    LET pr  == procs[p]
        row == [users[pr.tg_id] EXCEPT !.quota_next_reset_at = pr.nextReset]
    IN  /\ pr.pc = "patch"
        /\ users' = [users EXCEPT ![pr.tg_id] = row]
        /\ Settle(p, DueCheck([pr EXCEPT !.user = row], now))
        /\ UNCHANGED <<now, events, payments, sweep, syncVars, client>>

\* getOrCreateUserAndFreshen: UPDATE of a due row (the lazy reset)
ResetUser(p) ==
    LET pr  == procs[p]
        row == ApplyPatch(users[pr.tg_id], pr.arg)
    IN  /\ pr.pc = "reset"
        /\ users' = [users EXCEPT ![pr.tg_id] = row]
        /\ Settle(p, AfterFreshen([pr EXCEPT !.user = row], now))
        /\ UNCHANGED <<now, events, payments, sweep, syncVars, client>>

\* .update({ [field]: left - 1 }): the value computed from the row read before
decrementRow(row, arg) == [row EXCEPT ![arg.f] = arg.v]

\* consumeQuota: UPDATE lsd_users SET <leftField> = left - 1
Decrement(p) ==
    LET pr  == procs[p]
        row == decrementRow(users[pr.tg_id], pr.arg)
    IN  /\ pr.pc = "decr"
        /\ users' = [users EXCEPT ![pr.tg_id] = row]
        /\ Settle(p, AfterConsume([pr EXCEPT !.user = row, !.granted = TRUE]))
        /\ UNCHANGED <<now, events, payments, sweep, syncVars, client>>

\* activatePremiumForUser: UPDATE lsd_users SET tier = 'premium', ...
Activate(p) ==
    LET pr  == procs[p]
        row == [users[pr.tg_id] EXCEPT !.tier = "premium",
                                       !.premium_until = pr.arg.until,
                                       !.plans_left = pr.arg.plans.n,
                                       !.media_left = pr.arg.media.n,
                                       !.quota_next_reset_at = pr.arg.reset]
    IN  /\ pr.pc = "activate"
        /\ users' = [users EXCEPT ![pr.tg_id] = row]
        /\ Settle(p, Done([pr EXCEPT !.user = row], "ok"))
        /\ UNCHANGED <<now, events, payments, sweep, syncVars, client>>

-----------------------------------------------------------------------------
(* The sync endpoints *)

\* POST /api/sync/push
SyncPush(p, tg, body) ==
    /\ Free(p)
    /\ Event
    /\ Settle(p, SelectUser([Arrive("push", tg, "", "", "") EXCEPT !.body = body]))
    /\ UNCHANGED <<now, users, payments, sweep, syncVars, client>>

\* upsertChats: the upsert; a statement that names one key twice fails
UpsertChats(p) ==
    LET pr == procs[p]
    IN  /\ pr.pc = "upsertChats"
        /\ IF SameKeyTwice(pr.rows, chatKey)
           THEN /\ Settle(p, Done(pr, "server_error"))
                /\ UNCHANGED chats
           ELSE /\ chats' = UpsertChatRows(chats, pr.rows)
                /\ Settle(p, upsertMessages(pr, now))
        /\ UNCHANGED <<now, events, users, payments, sweep, messages, tasks, client>>

\* upsertMessages: the upsert of the rows with msg_id
UpsertMessages(p) ==
    LET pr == procs[p]
    IN  /\ pr.pc = "upsertMsgs"
        /\ IF SameKeyTwice(pr.withId, msgKey)
           THEN /\ Settle(p, Done(pr, "server_error"))
                /\ UNCHANGED messages
           ELSE /\ messages' = UpsertMsgRows(messages, pr.withId)
                /\ Settle(p, insertWithoutId(pr))
        /\ UNCHANGED <<now, events, users, payments, sweep, chats, tasks, client>>

\* upsertMessages: the insert of the rows without msg_id
InsertMessages(p) ==
    LET pr == procs[p]
    IN  /\ pr.pc = "insertMsgs"
        /\ messages' = InsertMsgRows(messages, pr.withoutId)
        /\ Settle(p, saveTasksState(pr))
        /\ UNCHANGED <<now, events, users, payments, sweep, chats, tasks, client>>

\* A variant: saveTasksState that keeps the stored document when there is one
saveTasksState_keep(old, tg, payload) == IF tg \in DOMAIN old THEN old ELSE (tg :> payload) @@ old

\* .upsert({ tg_id, state: payload }, { onConflict: "tg_id" })
UpsertTasksState(old, tg, payload) == (tg :> payload) @@ old

\* saveTasksState: the upsert of the document, or of { groups: [] } for a
\* tasks_state that is no object
SaveTasksState(p) ==
    LET pr      == procs[p]
        payload == IF pr.body.tasks_state \in Docs THEN pr.body.tasks_state ELSE EMPTY_STATE
    IN  /\ pr.pc = "saveTasks"
        /\ tasks' = UpsertTasksState(tasks, pr.tg_id, payload)
        /\ Settle(p, Done(pr, "ok"))
        /\ UNCHANGED <<now, events, users, payments, sweep, chats, messages, client>>

\* saveTasksState when the store answers the upsert with an error: the handler
\* logs "saveTasksState skipped" and goes on to its response
SaveTasksStateFails(p) ==
    LET pr == procs[p]
    IN  /\ pr.pc = "saveTasks"
        /\ Settle(p, Done(pr, "ok"))
        /\ UNCHANGED <<now, events, users, payments, sweep, syncVars, client>>

\* POST /api/sync/pull
SyncPull(p, tg, since) ==
    /\ Free(p)
    /\ Event
    /\ Settle(p, SelectUser([Arrive("pull", tg, "", "", "") EXCEPT !.since = since]))
    /\ UNCHANGED <<now, users, payments, sweep, syncVars, client>>

\* POST /api/sync/pull of a device that pulled last, with since set to the
\* server_time of that response
SyncPullAgain(p) ==
    /\ Free(p)
    /\ Event
    /\ stats.sent > 0
    /\ stats.last.op = "pull"
    /\ stats.last.res = "ok"
    /\ stats.last.since = NullTs
    /\ Settle(p, SelectUser([Arrive("pull", stats.last.tg_id, "", "", "") EXCEPT
                                !.since = stats.last.server_time,
                                !.had = stats.last.messages]))
    /\ UNCHANGED <<now, users, payments, sweep, syncVars, client>>

ListChats(p) ==
    LET pr == procs[p]
    IN  /\ pr.pc = "listChats"
        /\ \E l \in listChats(pr.tg_id) :
              Settle(p, [pr EXCEPT !.pc = "listMessages", !.chats = l])
        /\ UNCHANGED <<now, events, users, payments, sweep, syncVars, client>>

ListMessages(p) ==
    LET pr == procs[p]
    IN  /\ pr.pc = "listMessages"
        /\ \E l \in listMessages(pr.tg_id, pr.since, MESSAGES_LIMIT) :
              Settle(p, [pr EXCEPT !.pc = "loadTasks", !.messages = l])
        /\ UNCHANGED <<now, events, users, payments, sweep, syncVars, client>>

\* SELECT state FROM lsd_tasks_state: data?.state || { groups: [] }
loadTasksState(tg) == IF tg \in DOMAIN tasks THEN tasks[tg] ELSE EMPTY_STATE

\* A variant: a pull that stores the empty document for a user who has none
LoadTasksState_create(p) ==
    LET pr == procs[p]
    IN  /\ pr.pc = "loadTasks"
        /\ tasks' = IF pr.tg_id \in DOMAIN tasks THEN tasks
                    ELSE UpsertTasksState(tasks, pr.tg_id, EMPTY_STATE)
        /\ Settle(p, Done([pr EXCEPT !.tasks_state = loadTasksState(pr.tg_id),
                                     !.server_time = now], "ok"))
        /\ UNCHANGED <<now, events, users, payments, sweep, chats, messages, client>>

\* loadTasksState, and the response
LoadTasksState(p) ==
    LET pr == procs[p]
    IN  /\ pr.pc = "loadTasks"
        /\ Settle(p, Done([pr EXCEPT !.tasks_state = loadTasksState(pr.tg_id),
                                     !.server_time = now], "ok"))
        /\ UNCHANGED <<now, events, users, payments, sweep, syncVars, client>>

\* loadTasksState when the store answers the SELECT with an error: the handler
\* logs "loadTasksState skipped" and responds with { groups: [] }
LoadTasksStateFails(p) ==
    LET pr == procs[p]
    IN  /\ pr.pc = "loadTasks"
        /\ Settle(p, Done([pr EXCEPT !.tasks_state = EMPTY_STATE,
                                     !.server_time = now], "ok"))
        /\ UNCHANGED <<now, events, users, payments, sweep, syncVars, client>>

-----------------------------------------------------------------------------
(* The chat endpoints: /api/chat/send, /api/chat/attach, /api/plan/create.   *)
(* The call of the language model's API is a step of its own; what the API   *)
(* answers is fixed when the request arrives (pr.gemini): "ok", "busy"       *)
(* (429 three times: callGemini returns its apology) or "error" (it throws), *)
(* and the same after one or two answers of 429.                             *)

\* The HTTP statuses the model's API answers to the attempts of one call
upstream(gemini) ==
    CASE gemini = "ok"     -> <<200>>
      [] gemini = "ok2"    -> <<429, 200>>
      [] gemini = "ok3"    -> <<429, 429, 200>>
      [] gemini = "busy"   -> <<429, 429, 429>>
      [] gemini = "error"  -> <<500>>
      [] gemini = "error2" -> <<429, 500>>
      [] gemini = "error3" -> <<429, 429, 500>>

\* callGeminiText / callGeminiParts from the attempt on: the attempts made, whether
\* the call threw, and the text it returned ("ok" for the model's text, "busy"
\* for the apology after the loop)
RECURSIVE callGeminiFrom(_, _)
callGeminiFrom(statuses, attempt) ==
    IF attempt > 3 THEN [attempts |-> 3, threw |-> FALSE, text |-> "busy"]
    ELSE IF statuses[attempt] = 200
         THEN [attempts |-> attempt, threw |-> FALSE, text |-> "ok"]
    ELSE IF statuses[attempt] = 429
         THEN callGeminiFrom(statuses, attempt + 1)
    ELSE [attempts |-> attempt, threw |-> TRUE, text |-> ""]

callGeminiText(gemini) == callGeminiFrom(upstream(gemini), 1)

\* uuid(): an identifier no stored message has
uuid == "u" \o ToString(BagCardinality(messages))

\* The request of a chat endpoint; the kind of quota is the one it consumes
Chatting(op, id, chat, gemini) ==
    [Arrive(op, Number(id).n,
            CASE op = "plan" -> "plans" [] op = "attach" -> "media" [] OTHER -> "",
            "", "") EXCEPT
        !.chat_id = chat, !.gemini = gemini, !.before = Lookup(Number(id).n)]

\* POST /api/plan/create: the validation, then consumeQuota(tg_id, "plans")
PlanCreate(p, id, chat, gemini) ==
    /\ Free(p)
    /\ Event
    /\ LET pr == Chatting("plan", id, chat, gemini)
       IN  IF ~Number(id).fin THEN Settle(p, Done(pr, "tg_id_required"))
           ELSE IF chat = "" THEN Settle(p, Done(pr, "chat_id_required"))
           ELSE Settle(p, SelectUser(pr))
    /\ UNCHANGED <<now, users, payments, sweep, syncVars, client>>

\* POST /api/chat/attach: the validation, then consumeQuota(tg_id, "media")
ChatAttach(p, id, chat, file, gemini) ==
    /\ Free(p)
    /\ Event
    /\ LET pr == [Chatting("attach", id, chat, gemini) EXCEPT !.file = file, !.text = "label"]
       IN  IF ~Number(id).fin THEN Settle(p, Done(pr, "tg_id_required"))
           ELSE IF chat = "" THEN Settle(p, Done(pr, "chat_id_required"))
           ELSE IF file = "" THEN Settle(p, Done(pr, "file_required"))
           ELSE Settle(p, SelectUser(pr))
    /\ UNCHANGED <<now, users, payments, sweep, syncVars, client>>

\* POST /api/chat/send: the validation, then getOrCreateUserAndFreshen
ChatSend(p, id, chat, text, msg_id, gemini) ==
    /\ Free(p)
    /\ Event
    /\ LET pr == [Chatting("send", id, chat, gemini) EXCEPT !.text = text, !.msg_id = msg_id]
       IN  IF ~Number(id).fin THEN Settle(p, Done(pr, "tg_id_required"))
           ELSE IF chat = "" THEN Settle(p, Done(pr, "chat_id_required"))
           ELSE IF text = "" THEN Settle(p, Done(pr, "text_required"))
           ELSE Settle(p, SelectUser(pr))
    /\ UNCHANGED <<now, users, payments, sweep, syncVars, client>>

\* getOrCreateChat: SELECT
GetChat(p) ==
    LET pr    == procs[p]
        found == \E r \in chats : chatKey(r) = <<pr.tg_id, pr.chat_id>>
    IN  /\ pr.pc = "getChat"
        /\ Settle(p, [pr EXCEPT !.pc = IF found THEN "insertUserMsg" ELSE "createChat"])
        /\ UNCHANGED <<now, events, users, payments, sweep, syncVars, client>>

\* getOrCreateChat: INSERT; a chat of that key stored meanwhile is an error
CreateChat(p) ==
    LET pr  == procs[p]
        row == [tg_id |-> pr.tg_id, chat_id |-> pr.chat_id, title |-> DEFAULT_TITLE,
                emoji |-> DEFAULT_EMOJI, updated_at |-> now]
    IN  /\ pr.pc = "createChat"
        /\ IF \E r \in chats : chatKey(r) = chatKey(row)
           THEN /\ Settle(p, Done(pr, "server_error"))
                /\ UNCHANGED chats
           ELSE /\ chats' = chats \cup {row}
                /\ Settle(p, [pr EXCEPT !.pc = "insertUserMsg"])
        /\ UNCHANGED <<now, events, users, payments, sweep, messages, tasks, client>>

\* insertMessage: INSERT of one row; a stored message of the same tg_id and
\* msg_id is an error (the key of upsertMessages' onConflict)
insertMessage(bag, row) ==
    IF row.msg_id # "" /\ \E r \in DOMAIN bag : msgKey(r) = msgKey(row)
    THEN [ok |-> FALSE, bag |-> bag]
    ELSE [ok |-> TRUE, bag |-> bag (+) SetToBag({row})]

\* insertMessage of the user's message: msg_id of the request, or uuid()
InsertUserMessage(p) ==
    LET pr  == procs[p]
        id  == IF pr.msg_id # "" THEN pr.msg_id ELSE uuid
        row == [tg_id |-> pr.tg_id, chat_id |-> pr.chat_id, msg_id |-> id,
                role |-> "user", content |-> pr.text, created_at |-> now]
        ins == insertMessage(messages, row)
    IN  /\ pr.pc = "insertUserMsg"
        /\ messages' = ins.bag
        /\ Settle(p, IF ins.ok THEN [pr EXCEPT !.pc = "touchUser", !.msg_id = id]
                     ELSE Done(pr, "server_error"))
        /\ UNCHANGED <<now, events, users, payments, sweep, chats, tasks, client>>

\* touchChatUpdatedAt: UPDATE lsd_chats SET updated_at = now
touchChatUpdatedAt(tg, chat) ==
    {IF chatKey(r) = <<tg, chat>> THEN [r EXCEPT !.updated_at = now] ELSE r : r \in chats}

\* touchChatUpdatedAt after the user's message
TouchAfterUser(p) ==
    LET pr == procs[p]
    IN  /\ pr.pc = "touchUser"
        /\ chats' = touchChatUpdatedAt(pr.tg_id, pr.chat_id)
        /\ Settle(p, [pr EXCEPT !.pc = "loadMsgs"])
        /\ UNCHANGED <<now, events, users, payments, sweep, messages, tasks, client>>

\* loadChatMessages and buildTranscriptFromMessages: the transcript is empty
\* exactly when the chat has no message.  /api/plan/create answers an empty
\* plan for an empty transcript; /api/chat/attach calls the model for an image
\* only.
LoadChatMessages(p) ==
    LET pr    == procs[p]
        empty == ~\E r \in DOMAIN messages : r.tg_id = pr.tg_id /\ r.chat_id = pr.chat_id
    IN  /\ pr.pc = "loadMsgs"
        /\ Settle(p, CASE pr.op = "plan" /\ empty -> Done(pr, "ok")
                       [] pr.op = "attach" /\ pr.file # "image" ->
                              [pr EXCEPT !.pc = "insertAi", !.answer = "canned"]
                       [] OTHER -> [pr EXCEPT !.pc = "gemini"])
        /\ UNCHANGED <<now, events, users, payments, sweep, syncVars, client>>

\* A variant: a call that fails gives the unit back
CallGemini_refund(p) ==
    LET r  == callGeminiText(procs[p].gemini)
        pr == [procs[p] EXCEPT !.llm = @ + r.attempts]
        f  == leftField(pr.kind)
    IN  /\ procs[p].pc = "gemini"
        /\ users' = IF r.threw /\ pr.op # "send"
                     THEN [users EXCEPT ![pr.tg_id][f] = @ + 1]
                     ELSE users
        /\ Settle(p, CASE r.threw -> Done(pr, "server_error")
                       [] pr.op = "plan" -> [pr EXCEPT !.pc = "savePlan", !.answer = r.text]
                       [] OTHER -> [pr EXCEPT !.pc = "insertAi", !.answer = r.text])
        /\ UNCHANGED <<now, events, payments, sweep, syncVars, client>>

\* callGeminiText / callGeminiParts
CallGemini(p) ==
    LET r  == callGeminiText(procs[p].gemini)
        pr == [procs[p] EXCEPT !.llm = @ + r.attempts]
    IN  /\ procs[p].pc = "gemini"
        /\ Settle(p, CASE r.threw -> Done(pr, "server_error")
                       [] pr.op = "plan" -> [pr EXCEPT !.pc = "savePlan", !.answer = r.text]
                       [] OTHER -> [pr EXCEPT !.pc = "insertAi", !.answer = r.text])
        /\ UNCHANGED <<now, events, users, payments, sweep, syncVars, client>>

\* /api/plan/create: UPDATE lsd_users SET current_plan = payload (its error is
\* not looked at)
SavePlan(p) ==
    LET pr == procs[p]
    IN  /\ pr.pc = "savePlan"
        /\ users' = [tg \in DOMAIN users |->
                        IF tg = pr.tg_id THEN [users[tg] EXCEPT !.current_plan = pr.answer]
                        ELSE users[tg]]
        /\ Settle(p, Done(pr, "ok"))
        /\ UNCHANGED <<now, events, payments, sweep, syncVars, client>>

\* insertMessage of the answer, with a msg_id of uuid()
InsertAiMessage(p) ==
    LET pr  == procs[p]
        row == [tg_id |-> pr.tg_id, chat_id |-> pr.chat_id, msg_id |-> uuid,
                role |-> "assistant", content |-> pr.answer, created_at |-> now]
        ins == insertMessage(messages, row)
    IN  /\ pr.pc = "insertAi"
        /\ messages' = ins.bag
        /\ Settle(p, IF ins.ok THEN [pr EXCEPT !.pc = "touchAi"] ELSE Done(pr, "server_error"))
        /\ UNCHANGED <<now, events, users, payments, sweep, chats, tasks, client>>

\* touchChatUpdatedAt after the answer, and the response
TouchAfterAi(p) ==
    LET pr == procs[p]
    IN  /\ pr.pc = "touchAi"
        /\ chats' = touchChatUpdatedAt(pr.tg_id, pr.chat_id)
        /\ Settle(p, Done(pr, "ok"))
        /\ UNCHANGED <<now, events, users, payments, sweep, messages, tasks, client>>

-----------------------------------------------------------------------------
(* The quota worker *)

\* (hit: the rows the statements of the run in progress have matched)
SweepIdle == [pc |-> "idle", now |-> NullTs, nextReset |-> NullTs, hit |-> {}]

\* WHERE tier = <tier> AND quota_next_reset_at <= <now>
dueRows(tier) ==
    { tg \in DOMAIN users :
        /\ users[tg].tier = tier
        /\ users[tg].quota_next_reset_at # NullTs
        /\ users[tg].quota_next_reset_at <= sweep.now }

\* SET plans_left = <limit>, media_left = <limit>, quota_next_reset_at = <nextReset>
resetRow(row, tier, nextReset) ==
    [row EXCEPT !.plans_left = DAILY_LIMITS[tier].plans.n,
                !.media_left = DAILY_LIMITS[tier].media.n,
                !.quota_next_reset_at = nextReset]

\* UPDATE lsd_users SET ... WHERE tier = <tier> AND quota_next_reset_at <= <now>
resetDueUsersBatch(tier) ==
    [tg \in DOMAIN users |->
        IF tg \in dueRows(tier)
        THEN resetRow(users[tg], tier, sweep.nextReset)
        ELSE users[tg]]

\* setInterval fires: resetDueUsersBatch reads the clock
SweepFires ==
    /\ sweep.pc = "idle"
    /\ sweep' = [pc |-> "free", now |-> now, nextReset |-> nextAlmatyMidnightISO(now),
                 hit |-> {}]
    /\ UNCHANGED <<now, users, payments, procs, stats, syncVars, client>>

\* A run of the worker, counted as an event of the environment
SweepStart == Event /\ SweepFires

\* A run of the worker in a server that no request reaches: the interval fires
\* for ever
SweepAgain == SweepFires /\ UNCHANGED events

SweepFree ==
    /\ sweep.pc = "free"
    /\ users' = resetDueUsersBatch("free")
    /\ sweep' = [sweep EXCEPT !.pc = "premium", !.hit = dueRows("free")]
    /\ UNCHANGED <<now, events, payments, procs, stats, syncVars, client>>

\* A variant: a worker that resets the free rows only
SweepPremium_skipped ==
    /\ sweep.pc = "premium"
    /\ sweep' = SweepIdle
    /\ UNCHANGED <<now, events, users, payments, procs, stats, syncVars, client>>

SweepPremium ==
    /\ sweep.pc = "premium"
    /\ users' = resetDueUsersBatch("premium")
    /\ sweep' = SweepIdle
    /\ UNCHANGED <<now, events, payments, procs, stats, syncVars, client>>

-----------------------------------------------------------------------------
(* The clock *)

\* The model's start: 16:40 UTC of day 10, 21:40 in the reset frame
T0 == 10 * MIN_PER_DAY + 16 * 60 + 40

\* Three hours (across the reset boundary) or thirty days (across an expiry)
Advances == {3 * 60, 30 * MIN_PER_DAY}

Tick(d) ==
    /\ Event
    /\ now' = now + d
    /\ UNCHANGED <<users, payments, procs, sweep, stats, syncVars, client>>

-----------------------------------------------------------------------------
(* The client: the mini-app's script on one device of the user TheUser.  Its *)
(* timestamps are the model's instants (new Date(iso).getTime() of an        *)
(* instant is that instant); the emoji of a chat is left out.                *)

\* The title of a chat the client creates
NEW_CHAT_TITLE == "New chat"

\* uuid(): the identifiers the client generates, in the order it generates them
UUIDS == <<"k1", "k2", "k3", "k4", "k5", "k6">>

clientUuid(n) == UUIDS[n]

roleToWho(role) == IF role = "assistant" THEN "ai" ELSE "user"

whoToRole(who) == IF who = "ai" THEN "assistant" ELSE "user"

\* The script after it loaded, with nothing in localStorage
NoClient ==
    [chatCache |-> <<>>, chatsIndex |-> <<>>, tasksState |-> EMPTY_STATE,
     \* the calls of uuid() so far; the response its syncPull waits for (0: none)
     uuids |-> 0, pull |-> 0,
     \* the timer clock in ms, syncTimer (the id setTimeout returned last, 0 for
     \* null), the timers pending, and the ids given out
     clock |-> 0, syncTimer |-> 0, timers |-> {}, timerIds |-> 0,
     \* when scheduleSyncPush was called and when syncPush started
     calls |-> <<>>, pushes |-> <<>>]

\* chatCache[id] = chat
Put(cache, id, chat) ==
    [c \in DOMAIN cache \cup {id} |-> IF c = id THEN chat ELSE cache[c]]

\* ensureChat(id) at Date.now() = t
ensureChat(cache, id, t) ==
    IF id = "" THEN cache
    ELSE IF id \notin DOMAIN cache
         THEN Put(cache, id, [meta |-> [title |-> NEW_CHAT_TITLE, updatedAt |-> t],
                              messages |-> <<>>])
    ELSE LET c == cache[id]
         IN  Put(cache, id,
                 [c EXCEPT !.meta.updatedAt = IF @ = NullTs THEN t ELSE @,
                           !.meta.title = IF @ = "" THEN NEW_CHAT_TITLE ELSE @])

\* syncPull, "chats": data.chats.forEach(...)
RECURSIVE mergeChatRows(_, _, _)
mergeChatRows(cl, rows, t) ==
    IF rows = <<>> THEN cl
    ELSE LET c    == Head(rows)
             id   == c.chat_id
             old  == IF id \in DOMAIN cl.chatCache THEN cl.chatCache[id].messages ELSE <<>>
             chat == [meta |-> [title |-> IF c.title = "" THEN NEW_CHAT_TITLE ELSE c.title,
                                updatedAt |-> IF c.updated_at = NullTs THEN t
                                              ELSE c.updated_at],
                      messages |-> old]
             idx  == IF \E i \in DOMAIN cl.chatsIndex : cl.chatsIndex[i] = id
                     THEN cl.chatsIndex ELSE Append(cl.chatsIndex, id)
         IN  IF id = "" THEN mergeChatRows(cl, Tail(rows), t)
             ELSE mergeChatRows([cl EXCEPT !.chatCache = Put(@, id, chat),
                                           !.chatsIndex = idx], Tail(rows), t)

\* data.messages of a pull response: the array of the rows, run by run
RECURSIVE dataMessages(_)
dataMessages(runs) ==
    IF runs = <<>> THEN <<>>
    ELSE [i \in 1..Head(runs).n |-> Head(runs).row] \o dataMessages(Tail(runs))

\* syncPull, "messages": the entries of byChat in the order of the response,
\* each with its chat; n calls of uuid() were made before
RECURSIVE toLocal(_, _, _)
toLocal(ms, n, t) ==
    IF ms = <<>> THEN <<>>
    ELSE LET m  == Head(ms)
             k  == IF m.chat_id # "" /\ m.msg_id = "" THEN n + 1 ELSE n
             x  == [msg_id |-> IF m.msg_id # "" THEN m.msg_id ELSE clientUuid(k),
                    who |-> roleToWho(m.role), text |-> m.content,
                    ts |-> IF m.created_at = NullTs THEN t ELSE m.created_at]
         IN  IF m.chat_id = "" THEN toLocal(Tail(ms), n, t)
             ELSE <<[chat_id |-> m.chat_id, x |-> x]>> \o toLocal(Tail(ms), k, t)

\* messages.sort((a, b) => (a.ts || 0) - (b.ts || 0)), a stable sort
RECURSIVE sortByTs(_)
sortByTs(l) ==
    IF l = <<>> THEN <<>>
    ELSE LET front == sortByTs(SubSeq(l, 1, Len(l) - 1))
             x     == l[Len(l)]
             k     == Cardinality({i \in DOMAIN front : front[i].ts <= x.ts})
         IN  SubSeq(front, 1, k) \o <<x>> \o SubSeq(front, k + 1, Len(front))

\* A variant: the entries of the response appended without the test on msg_id
mergeChat_appendAll(chat, arr) ==
    LET msgs == sortByTs(chat.messages \o arr)
        last == msgs[Len(msgs)]
    IN  [chat EXCEPT !.messages = msgs,
                     !.meta.updatedAt = IF msgs # <<>> /\ last.ts # NullTs THEN last.ts ELSE @]

\* syncPull, byChat.forEach: the entries arr of the response merged into a chat
mergeChat(chat, arr) ==
    LET existing == {chat.messages[i].msg_id : i \in DOMAIN chat.messages} \ {""}
        Unknown(x) == x.msg_id \notin existing
        msgs == sortByTs(chat.messages \o SelectSeq(arr, Unknown))
        last == msgs[Len(msgs)]
    IN  [chat EXCEPT !.messages = msgs,
                     !.meta.updatedAt = IF msgs # <<>> /\ last.ts # NullTs THEN last.ts ELSE @]

\* chatsIndex.filter(...).sort(...) by meta.updatedAt, latest first
RECURSIVE sortIndex(_, _)
sortIndex(idx, cache) ==
    IF idx = <<>> THEN <<>>
    ELSE LET front == sortIndex(SubSeq(idx, 1, Len(idx) - 1), cache)
             id    == idx[Len(idx)]
             k     == Cardinality({i \in DOMAIN front :
                          cache[front[i]].meta.updatedAt >= cache[id].meta.updatedAt})
         IN  IF id \notin DOMAIN cache THEN front
             ELSE SubSeq(front, 1, k) \o <<id>> \o SubSeq(front, k + 1, Len(front))

\* The uuid() calls syncPull makes for a response
Unnamed(ms) == Cardinality({i \in DOMAIN ms : ms[i].chat_id # "" /\ ms[i].msg_id = ""})

\* syncPull after its response data arrived, at Date.now() = t
syncPullMerge(cl, data, t) ==
    LET c1    == mergeChatRows(cl, data.chats, t)
        loc   == toLocal(dataMessages(data.messages), cl.uuids, t)
        ids   == {loc[i].chat_id : i \in DOMAIN loc}
        Of(id) == LET In(e) == e.chat_id = id
                      es    == SelectSeq(loc, In)
                  IN  [i \in DOMAIN es |-> es[i].x]
        cache == [id \in DOMAIN c1.chatCache \cup ids |->
                     IF id \in ids THEN mergeChat(ensureChat(c1.chatCache, id, t)[id], Of(id))
                     ELSE c1.chatCache[id]]
    IN  [c1 EXCEPT !.chatCache = cache,
                   !.chatsIndex = sortIndex(@, cache),
                   !.tasksState = IF data.tasks_state \in {"", "scalar"} THEN @
                                  ELSE data.tasks_state,
                   !.uuids = @ + Unnamed(dataMessages(data.messages)),
                   !.pull = 0]

\* syncPull: POST /api/sync/pull with { tg_id }
ClientSyncPull(p) ==
    /\ Free(p)
    /\ Event
    /\ client.pull = 0
    /\ client.uuids + 2 <= Len(UUIDS)
    /\ Settle(p, SelectUser(Arrive("pull", TheUser, "", "", "")))
    /\ client' = [client EXCEPT !.pull = stats.sent + 1]
    /\ UNCHANGED <<now, users, payments, sweep, syncVars>>

\* syncPull after await postJSON: if (!ok) return, else the response is merged
ClientPulled ==
    /\ client.pull # 0
    /\ stats.sent = client.pull
    /\ client' = IF stats.last.res = "ok" THEN syncPullMerge(client, stats.last, now)
                 ELSE [client EXCEPT !.pull = 0]
    /\ UNCHANGED <<now, events, users, payments, procs, sweep, stats, syncVars>>

\* setTimeout(syncPush, 650)
SYNC_PUSH_DELAY == 650

\* syncPush sends the last 80 messages of a chat
PUSH_LAST == 80

\* The timers whose time has come.  A timer's callback runs at its time, before
\* anything that happens later at the same instant.
DueTimers == {t \in client.timers : t.due <= client.clock}

\* A variant: scheduleSyncPush without clearTimeout
ScheduleSyncPush_noClear ==
    /\ DueTimers = {}
    /\ Len(client.calls) < MaxCalls
    /\ client' = [client EXCEPT
                     !.timers = @ \cup {[id |-> client.timerIds + 1,
                                         due |-> client.clock + SYNC_PUSH_DELAY]},
                     !.syncTimer = client.timerIds + 1,
                     !.timerIds = @ + 1,
                     !.calls = Append(@, client.clock)]
    /\ UNCHANGED <<now, events, users, payments, procs, sweep, stats, syncVars>>

\* scheduleSyncPush: clearTimeout(syncTimer); syncTimer = setTimeout(syncPush, 650)
ScheduleSyncPush ==
    /\ DueTimers = {}
    /\ Len(client.calls) < MaxCalls
    /\ client' = [client EXCEPT
                     !.timers = {t \in @ : t.id # client.syncTimer}
                                \cup {[id |-> client.timerIds + 1,
                                       due |-> client.clock + SYNC_PUSH_DELAY]},
                     !.syncTimer = client.timerIds + 1,
                     !.timerIds = @ + 1,
                     !.calls = Append(@, client.clock)]
    /\ UNCHANGED <<now, events, users, payments, procs, sweep, stats, syncVars>>

\* d ms pass in which no timer's time comes before the end
ClientWait(d) ==
    /\ client.clock + d <= MaxClock
    /\ \A t \in client.timers : t.due >= client.clock + d
    /\ client' = [client EXCEPT !.clock = @ + d]
    /\ UNCHANGED <<now, events, users, payments, procs, sweep, stats, syncVars>>

\* syncPush: chats_upsert of the chats of chatsIndex that are in the cache
RECURSIVE chatsUpsert(_, _)
chatsUpsert(idx, cache) ==
    IF idx = <<>> THEN <<>>
    ELSE LET id == Head(idx)
         IN  (IF id \in DOMAIN cache
              THEN <<[chat_id |-> id, title |-> cache[id].meta.title, emoji |-> "",
                      updated_at |-> cache[id].meta.updatedAt]>>
              ELSE <<>>) \o chatsUpsert(Tail(idx), cache)

\* syncPush: messages_upsert, the last 80 entries of each chat of chatsIndex
\* (every entry of the cache has a msg_id: pushMsg and syncPull give it one)
RECURSIVE messagesUpsert(_, _)
messagesUpsert(idx, cache) ==
    IF idx = <<>> THEN <<>>
    ELSE LET id  == Head(idx)
             all == IF id \in DOMAIN cache THEN cache[id].messages ELSE <<>>
             arr == SubSeq(all, IF Len(all) > PUSH_LAST THEN Len(all) - PUSH_LAST + 1 ELSE 1,
                           Len(all))
         IN  [i \in DOMAIN arr |->
                 [chat_id |-> id, msg_id |-> arr[i].msg_id, role |-> whoToRole(arr[i].who),
                  content |-> arr[i].text, created_at |-> arr[i].ts]]
             \o messagesUpsert(Tail(idx), cache)

\* The timer fires: syncPush posts the cache to /api/sync/push
SyncPushFires(p) ==
    /\ Free(p)
    /\ \E t \in DueTimers :
          client' = [client EXCEPT !.timers = @ \ {t}, !.pushes = Append(@, client.clock)]
    /\ Settle(p, SelectUser([Arrive("push", TheUser, "", "", "") EXCEPT
                    !.body = [chats_upsert |-> chatsUpsert(client.chatsIndex, client.chatCache),
                              messages_upsert |-> messagesUpsert(client.chatsIndex,
                                                                 client.chatCache),
                              tasks_state |-> client.tasksState]]))
    /\ UNCHANGED <<now, events, users, payments, sweep, syncVars>>

-----------------------------------------------------------------------------
(* The server: concurrent requests, the quota worker and the clock *)

\* Rows the store may hold when the server starts
InitRows ==
    LET due    == nextAlmatyMidnightISO(T0 - MIN_PER_DAY)
        later  == nextAlmatyMidnightISO(T0)
        active == T0 + MIN_PER_DAY
        lapsed == T0 - MIN_PER_DAY
    IN  { UserRow("free", NullTs, 0, 0, due),
          UserRow("free", NullTs, 1, 1, later),
          UserRow("free", NullTs, 0, 2, NullTs),
          UserRow("premium", active, 0, 1, due),
          UserRow("premium", lapsed, 0, 1, due),
          UserRow("premium", active, 30, 29, later),
          UserRow("developer", NullTs, 0, 0, due) }

InitTables == {<<>>} \cup {(tg :> row) : tg \in TgIds, row \in InitRows}

\* The server starts, with the observer st
Start(st) ==
    /\ now = T0
    /\ events = 0
    /\ users \in InitTables
    /\ payments = {}
    /\ procs = [p \in Procs |-> Idle]
    /\ sweep = SweepIdle
    /\ stats = st
    /\ chats = {}
    /\ messages = EmptyBag
    /\ tasks = <<>>
    /\ client = NoClient

Init == Start(NoStats)

\* The steps of the server with its requests in the slots S
Server(S) ==
    \/ \E p \in S, tg \in TgIds : UserInit(p, tg)
    \/ \E p \in S, tg \in TgIds, kind \in Kinds : Consume(p, tg, kind)
    \/ \E p \in S, tg \in TgIds, plan \in Plans, charge \in ChargeIds :
          SuccessfulPayment(p, tg, plan, charge)
    \/ \E p \in S : ActivateSelect(p)
    \/ \E p \in S : InsertUser(p)
    \/ \E p \in S : PatchUser(p)
    \/ \E p \in S : ResetUser(p)
    \/ \E p \in S : Decrement(p)
    \/ \E p \in S : Activate(p)
    \/ SweepStart
    \/ SweepFree
    \/ SweepPremium
    \/ \E d \in Advances : Tick(d)

Next == Server(Procs)

Spec == Init /\ [][Next]_vars

-----------------------------------------------------------------------------
(* The server with one request at a time *)

\* The responses are logged
InitSeq == Start([NoStats EXCEPT !.log = TRUE])

NextSeq == Server({1})

SpecSeq == InitSeq /\ [][NextSeq]_vars

-----------------------------------------------------------------------------
(* First contact: requests of users the table may not hold yet, two at a      *)
(* time, with the responses logged                                            *)

NextFirst ==
    \/ \E p \in Procs, tg \in TgIds : UserInit(p, tg)
    \/ \E p \in Procs, tg \in TgIds, kind \in Kinds : Consume(p, tg, kind)
    \/ \E p \in Procs : InsertUser(p)
    \/ \E p \in Procs : PatchUser(p)
    \/ \E p \in Procs : ResetUser(p)
    \/ \E p \in Procs : Decrement(p)

SpecFirst == InitSeq /\ [][NextFirst]_vars

-----------------------------------------------------------------------------
(* The webhook scenario: updates of Telegram, concurrent, with the responses  *)
(* logged                                                                     *)

SecretHeaders == {"", "s1", "s2"}

Updates == {"pre_checkout_query", "successful_payment", "other"}

\* Invoice payloads: the one the server's invoice carries, and others
Payloads ==
    { Payload(JNumber(1), "month"),
      Payload(JString("1"), "year"),
      Payload(JNumber(1), "week"),
      Payload(JNull, "month"),
      Payload(JString("abc"), "year"),
      Payload(JUndefined, "") }

Hook(S) ==
    \/ \E p \in S, got \in SecretHeaders : WebhookBadSecret(p, got)
    \/ \E p \in S, got \in SecretHeaders, update \in Updates, payload \in Payloads :
          WebhookIgnored(p, got, update, payload)
    \/ \E p \in S, got \in SecretHeaders, payload \in Payloads, tgApi \in {"ok", "error"} :
          PreCheckout(p, got, payload, tgApi)
    \/ \E p \in S, tg \in TgIds, plan \in Plans, charge \in ChargeIds :
          SuccessfulPayment(p, tg, plan, charge)
    \/ \E p \in S : ActivateSelect(p)
    \/ \E p \in S : InsertUser(p)
    \/ \E p \in S : PatchUser(p)
    \/ \E p \in S : ResetUser(p)
    \/ \E p \in S : Activate(p)

NextHook == Hook(Procs)

SpecHook == InitSeq /\ [][NextHook]_vars

-----------------------------------------------------------------------------
(* Payments: successful_payment updates of two invoices, which Telegram       *)
(* delivers to the webhook independently of each other                        *)

\* provider_payment_charge_id of the two payments
PaidCharges == {"ch1", "ch2"}

NextPay ==
    \/ \E p \in Procs, tg \in TgIds, plan \in Plans, charge \in PaidCharges :
          SuccessfulPayment(p, tg, plan, charge)
    \/ \E p \in Procs : ActivateSelect(p)
    \/ \E p \in Procs : InsertUser(p)
    \/ \E p \in Procs : PatchUser(p)
    \/ \E p \in Procs : ResetUser(p)
    \/ \E p \in Procs : Activate(p)

SpecPay == InitSeq /\ [][NextPay]_vars

-----------------------------------------------------------------------------
(* The pure functions of the quota rules, applied to inputs drawn at the      *)
(* start: a stored row, the current time, and the time zone of the server     *)
(* process, which setHours reads                                              *)

\* What the tier column can hold: the labels the server writes, and labels
\* written by hand
StoredTiers == {"free", "premium", "developer", "Developer", "PREMIUM", ""}

\* Instants around the UTC+5 midnight that follows T0
Midnight0 == nextAlmatyMidnightAt(T0, 0)

Instants ==
    { T0, Midnight0 - 1, Midnight0, Midnight0 + 1, Midnight0 + 12 * 60,
      Midnight0 + MIN_PER_DAY - 1, Midnight0 + MIN_PER_DAY }

\* Offsets from UTC of the server's zone, in minutes: UTC, Asia/Almaty, UTC-5
Zones == {0, 5 * 60, 0 - 5 * 60}

NoCall == [fn |-> "", zone |-> 0, tier |-> "", boundary |-> NullTs]

InitPure ==
    /\ now \in Instants
    /\ events = 0
    /\ users \in { (TheUser :> UserRow(tier, until, 0, 0, NullTs)) :
                      tier \in StoredTiers, until \in {NullTs} \cup Instants }
    /\ payments = {}
    /\ procs = [p \in Procs |-> Idle]
    /\ sweep = SweepIdle
    /\ stats \in { [NoCall EXCEPT !.zone = z] : z \in Zones }
    /\ chats = {}
    /\ messages = EmptyBag
    /\ tasks = <<>>
    /\ client = NoClient

\* effectiveTier(user) at Date.now() = now
CallEffectiveTier ==
    /\ stats.fn = ""
    /\ stats' = [stats EXCEPT !.fn = "effectiveTier",
                              !.tier = effectiveTier(users[TheUser], now)]
    /\ UNCHANGED <<now, events, users, payments, procs, sweep, syncVars, client>>

\* nextAlmatyMidnightISO(new Date()) in a process whose zone is stats.zone
CallNextAlmatyMidnightISO ==
    /\ stats.fn = ""
    /\ stats' = [stats EXCEPT !.fn = "nextAlmatyMidnightISO",
                              !.boundary = nextAlmatyMidnightAt(now, stats.zone)]
    /\ UNCHANGED <<now, events, users, payments, procs, sweep, syncVars, client>>

NextPure == CallEffectiveTier \/ CallNextAlmatyMidnightISO

SpecPure == InitPure /\ [][NextPure]_vars

-----------------------------------------------------------------------------
(* The scenario of the endpoints that spend quota on the language model:      *)
(* /api/plan/create and /api/chat/attach, concurrent, with the responses      *)
(* logged                                                                     *)

\* Requests of /api/plan/create: tg_id, chat_id, and what the model's API answers
PlanRequests ==
    { <<JUndefined, "c1", "ok">>,
      <<JNumber(TheUser), "", "ok">>,
      <<JNumber(TheUser), "c1", "ok">>,
      <<JNumber(TheUser), "c1", "busy">>,
      <<JNumber(TheUser), "c1", "error">> }

\* Requests of /api/chat/attach: tg_id, chat_id, the file, and what the model's
\* API answers
AttachRequests ==
    { <<JUndefined, "c1", "image", "ok">>,
      <<JNumber(TheUser), "", "image", "ok">>,
      <<JNumber(TheUser), "c1", "", "ok">>,
      <<JNumber(TheUser), "c1", "doc", "ok">>,
      <<JNumber(TheUser), "c1", "image", "ok">>,
      <<JNumber(TheUser), "c1", "image", "error">> }

InitLlm ==
    LET later == nextAlmatyMidnightISO(T0)
        due   == nextAlmatyMidnightISO(T0 - MIN_PER_DAY)
        said  == SetToBag({[tg_id |-> TheUser, chat_id |-> "c1", msg_id |-> "m0",
                            role |-> "user", content |-> "a", created_at |-> T0 - 60]})
    IN  /\ now = T0
        /\ events = 0
        /\ users \in { <<>>,
                        (TheUser :> UserRow("free", NullTs, 1, 0, later)),
                        (TheUser :> UserRow("free", NullTs, 0, 1, NullTs)),
                        (TheUser :> UserRow("free", NullTs, 0, 0, due)),
                        (TheUser :> UserRow("developer", NullTs, 0, 0, later)) }
        /\ payments = {}
        /\ procs = [p \in Procs |-> Idle]
        /\ sweep = SweepIdle
        /\ stats = [NoStats EXCEPT !.log = TRUE]
        /\ chats = {}
        /\ messages \in {EmptyBag, said}
        /\ tasks = <<>>
        /\ client = NoClient

Llm(S) ==
    \/ \E p \in S, r \in PlanRequests : PlanCreate(p, r[1], r[2], r[3])
    \/ \E p \in S, r \in AttachRequests : ChatAttach(p, r[1], r[2], r[3], r[4])
    \/ \E p \in S : InsertUser(p)
    \/ \E p \in S : PatchUser(p)
    \/ \E p \in S : ResetUser(p)
    \/ \E p \in S : Decrement(p)
    \/ \E p \in S : GetChat(p)
    \/ \E p \in S : CreateChat(p)
    \/ \E p \in S : InsertUserMessage(p)
    \/ \E p \in S : TouchAfterUser(p)
    \/ \E p \in S : LoadChatMessages(p)
    \/ \E p \in S : CallGemini(p)
    \/ \E p \in S : SavePlan(p)
    \/ \E p \in S : InsertAiMessage(p)
    \/ \E p \in S : TouchAfterAi(p)

NextLlm == Llm({1})

SpecLlm == InitLlm /\ [][NextLlm]_vars

-----------------------------------------------------------------------------
(* The quota worker alone: no request arrives, the clock advances a bounded   *)
(* number of times, and the interval of the worker fires for ever.  The       *)
(* worker's steps are weakly fair: setInterval keeps firing and the store     *)
(* answers every UPDATE.                                                      *)

\* The instants the clock can show
ClockTimes ==
    { T0 + a * (3 * 60) + b * (30 * MIN_PER_DAY) :
        a \in 0 .. MaxEvents, b \in 0 .. MaxEvents }

NextWorker ==
    \/ SweepAgain
    \/ SweepFree
    \/ SweepPremium
    \/ \E d \in Advances : Tick(d)

SpecWorker ==
    /\ InitSeq
    /\ [][NextWorker]_vars
    /\ WF_vars(SweepAgain)
    /\ WF_vars(SweepFree)
    /\ WF_vars(SweepPremium)

-----------------------------------------------------------------------------
(* The consume scenario: a row of a finite-limit tier with no reset due,    *)
(* and nothing but consume requests, which the observer counts.             *)

ConsumeRows ==
    { UserRow(t[1], t[2], plans, media, nextAlmatyMidnightISO(T0)) :
        t \in {<<"free", NullTs>>, <<"premium", T0 + MIN_PER_DAY>>},
        plans \in 0 .. MaxLeft, media \in 0 .. MaxLeft }

InitConsume ==
    /\ now = T0
    /\ events = 0
    /\ \E tg \in TgIds, row \in ConsumeRows :
          /\ users = (tg :> row)
          /\ stats = [NoStats EXCEPT !.on = TRUE, !.row0 = row]
    /\ payments = {}
    /\ procs = [p \in Procs |-> Idle]
    /\ sweep = SweepIdle
    /\ chats = {}
    /\ messages = EmptyBag
    /\ tasks = <<>>
    /\ client = NoClient

NextConsume ==
    \/ \E p \in Procs, tg \in TgIds, kind \in Kinds : Consume(p, tg, kind)
    \/ \E p \in Procs : Decrement(p)

SpecConsume == InitConsume /\ [][NextConsume]_vars

-----------------------------------------------------------------------------
(* The sync scenario: pushes and pulls of one user, and the clock *)

Chat(chat, title, ts) == [chat_id |-> chat, title |-> title, emoji |-> "", updated_at |-> ts]

Msg(chat, id, role, content, ts) ==
    [chat_id |-> chat, msg_id |-> id, role |-> role, content |-> content, created_at |-> ts]

Body(cs, ms, doc) == [chats_upsert |-> cs, messages_upsert |-> ms, tasks_state |-> doc]

\* Request bodies of /api/sync/push.  Timestamps left out (NullTs) are set by
\* the server; those given are the client's.
PushBodies ==
    LET mA  == Msg("c1", "m1", "user", "a", T0 - 50)
        mA2 == Msg("c2", "m1", "assistant", "b", NullTs)
        mB  == Msg("c1", "m2", "assistant", "b", T0 - 100)
        nA  == Msg("c1", "", "user", "a", T0 - 50)
        nB  == Msg("c2", "", "assistant", "b", NullTs)
    IN  { Body(<<Chat("c1", "", NullTs)>>, <<mA>>, ""),
          Body(<<>>, <<mA2>>, "d1"),
          Body(<<Chat("c2", "t", T0 - 100), Chat("c1", "t", T0 - 50)>>, <<mA, mB>>, ""),
          Body(<<>>, <<nA, nB>>, "d2"),
          Body(<<>>, <<mA, mA2>>, "d1"),
          Body(<<Chat("", "t", NullTs), Chat("c1", "", T0), Chat("c1", "t", NullTs)>>, <<>>, ""),
          Body(<<>>, <<Msg("", "m2", "user", "a", NullTs), Msg("c1", "m2", "system", "a", NullTs),
                       Msg("c1", "", "user", "", NullTs), nA>>, "scalar") }

\* The cursors of /api/sync/pull: none, or an hour before the start
Cursors == {NullTs, T0 - 60}

\* A long history: MESSAGES_LIMIT messages of the day before, without msg_id
History ==
    SetToBag({[tg_id |-> TheUser, chat_id |-> "c0", msg_id |-> "", role |-> "user",
               content |-> "a", created_at |-> T0 - MIN_PER_DAY]})

Times(bag, n) == [r \in DOMAIN bag |-> n * bag[r]]

InitStores ==
    LET fresh == UserRow("free", NullTs, 3, 3, nextAlmatyMidnightISO(T0))
        due   == UserRow("free", NullTs, 0, 0, nextAlmatyMidnightISO(T0 - MIN_PER_DAY))
        unset == UserRow("free", NullTs, 3, 2, NullTs)
    IN  { [users |-> <<>>, messages |-> EmptyBag],
          [users |-> (TheUser :> fresh), messages |-> EmptyBag],
          [users |-> (TheUser :> fresh), messages |-> Times(History, MESSAGES_LIMIT)],
          [users |-> (TheUser :> due), messages |-> Times(History, MESSAGES_LIMIT)],
          [users |-> (TheUser :> unset), messages |-> EmptyBag] }

InitSync ==
    /\ now = T0
    /\ events = 0
    /\ \E st \in InitStores : users = st.users /\ messages = st.messages
    /\ payments = {}
    /\ procs = [p \in Procs |-> Idle]
    /\ sweep = SweepIdle
    /\ stats = [NoStats EXCEPT !.log = TRUE]
    /\ chats = {}
    /\ tasks = <<>>
    /\ client = NoClient

Sync(S) ==
    \/ \E p \in S, tg \in TgIds, body \in PushBodies : SyncPush(p, tg, body)
    \/ \E p \in S, tg \in TgIds, since \in Cursors : SyncPull(p, tg, since)
    \/ \E p \in S : InsertUser(p)
    \/ \E p \in S : PatchUser(p)
    \/ \E p \in S : ResetUser(p)
    \/ \E p \in S : UpsertChats(p)
    \/ \E p \in S : UpsertMessages(p)
    \/ \E p \in S : InsertMessages(p)
    \/ \E p \in S : SaveTasksState(p)
    \/ \E p \in S : ListChats(p)
    \/ \E p \in S : ListMessages(p)
    \/ \E p \in S : LoadTasksState(p)
    \/ Tick(3 * 60)

NextSync == Sync({1})

SpecSync == InitSync /\ [][NextSync]_vars

-----------------------------------------------------------------------------
(* The chat scenario: the client shows a message it sends (pushMsg gives it a *)
(* msg_id and stores it locally), posts it to /api/chat/send with that msg_id *)
(* and pushes its local store to /api/sync/push, two requests at a time       *)

\* Requests of /api/chat/send: tg_id, chat_id, text, msg_id, and what the
\* model's API answers
SendRequests ==
    { <<JNumber(TheUser), "c1", "a", "m1", "ok">>,
      <<JNumber(TheUser), "c1", "", "m1", "ok">> }

\* Bodies of /api/sync/push that hold the message m1 of the chat c1
SentBodies ==
    LET m1 == Msg("c1", "m1", "user", "a", T0 - 1)
        n  == Msg("c2", "", "assistant", "b", NullTs)
    IN  { Body(<<>>, <<m1>>, ""),
          Body(<<Chat("c2", "t", T0 - 1)>>, <<m1, n>>, "d1") }

InitChat ==
    LET later == nextAlmatyMidnightISO(T0)
        due   == nextAlmatyMidnightISO(T0 - MIN_PER_DAY)
    IN  /\ now = T0
        /\ events = 0
        /\ users \in { (TheUser :> UserRow("free", NullTs, 3, 3, later)),
                        (TheUser :> UserRow("free", NullTs, 3, 3, NullTs)),
                        (TheUser :> UserRow("free", NullTs, 0, 0, due)) }
        /\ payments = {}
        /\ procs = [p \in Procs |-> Idle]
        /\ sweep = SweepIdle
        /\ stats = [NoStats EXCEPT !.log = TRUE]
        /\ chats \in { {}, {[tg_id |-> TheUser, chat_id |-> "c1", title |-> DEFAULT_TITLE,
                               emoji |-> DEFAULT_EMOJI, updated_at |-> T0 - 60]} }
        /\ messages = EmptyBag
        /\ tasks = <<>>
        /\ client = NoClient

NextChat ==
    \/ \E p \in Procs, r \in SendRequests : ChatSend(p, r[1], r[2], r[3], r[4], r[5])
    \/ \E p \in Procs, tg \in TgIds, body \in SentBodies : SyncPush(p, tg, body)
    \/ \E p \in Procs : PatchUser(p)
    \/ \E p \in Procs : ResetUser(p)
    \/ \E p \in Procs : GetChat(p)
    \/ \E p \in Procs : CreateChat(p)
    \/ \E p \in Procs : InsertUserMessage(p)
    \/ \E p \in Procs : TouchAfterUser(p)
    \/ \E p \in Procs : LoadChatMessages(p)
    \/ \E p \in Procs : CallGemini(p)
    \/ \E p \in Procs : InsertAiMessage(p)
    \/ \E p \in Procs : TouchAfterAi(p)
    \/ \E p \in Procs : UpsertChats(p)
    \/ \E p \in Procs : UpsertMessages(p)
    \/ \E p \in Procs : InsertMessages(p)
    \/ \E p \in Procs : SaveTasksState(p)

SpecChat == InitChat /\ [][NextChat]_vars

-----------------------------------------------------------------------------
(* Incremental pulls: a device pulls everything, then pulls again from the    *)
(* server_time of that response, while other devices push                     *)

\* Bodies of the pushes of other devices: a message the device stamped when it
\* was written, and one the server stamps
LatePushes ==
    { Body(<<>>, <<Msg("c1", "m1", "user", "a", T0 - 50)>>, ""),
      Body(<<>>, <<Msg("c1", "m2", "user", "b", NullTs)>>, "") }

InitCursor ==
    /\ now = T0
    /\ events = 0
    /\ users = (TheUser :> UserRow("free", NullTs, 3, 3, nextAlmatyMidnightISO(T0)))
    /\ payments = {}
    /\ procs = [p \in Procs |-> Idle]
    /\ sweep = SweepIdle
    /\ stats = [NoStats EXCEPT !.log = TRUE]
    /\ chats = {}
    /\ messages \in {EmptyBag, Times(History, 1)}
    /\ tasks = <<>>
    /\ client = NoClient

NextCursor ==
    \/ \E p \in Procs, tg \in TgIds : SyncPull(p, tg, NullTs)
    \/ \E p \in Procs : SyncPullAgain(p)
    \/ \E p \in Procs, tg \in TgIds, body \in LatePushes : SyncPush(p, tg, body)
    \/ \E p \in Procs : UpsertMessages(p)
    \/ \E p \in Procs : ListChats(p)
    \/ \E p \in Procs : ListMessages(p)
    \/ \E p \in Procs : LoadTasksState(p)
    \/ Tick(3 * 60)

SpecCursor == InitCursor /\ [][NextCursor]_vars

-----------------------------------------------------------------------------
(* The task-state document: pushes and pulls of one device, one request at a  *)
(* time, against a store whose lsd_tasks_state table may answer with an error *)

\* Bodies of pushes that carry nothing but the document, or nothing at all
DocBodies == { Body(<<>>, <<>>, doc) : doc \in Docs \cup {""} }

InitDoc ==
    /\ now = T0
    /\ events = 0
    /\ users = (TheUser :> UserRow("free", NullTs, 3, 3, nextAlmatyMidnightISO(T0)))
    /\ payments = {}
    /\ procs = [p \in Procs |-> Idle]
    /\ sweep = SweepIdle
    /\ stats = [NoStats EXCEPT !.log = TRUE]
    /\ chats = {}
    /\ messages = EmptyBag
    /\ tasks \in {<<>>, (TheUser :> "d2")}
    /\ client = NoClient

NextDoc ==
    \/ \E tg \in TgIds, body \in DocBodies : SyncPush(1, tg, body)
    \/ \E tg \in TgIds : SyncPull(1, tg, NullTs)
    \/ SaveTasksState(1)
    \/ SaveTasksStateFails(1)
    \/ ListChats(1)
    \/ ListMessages(1)
    \/ LoadTasksState(1)
    \/ LoadTasksStateFails(1)

SpecDoc == InitDoc /\ [][NextDoc]_vars

-----------------------------------------------------------------------------
(* Two users: requests made with the user id 1 and with the user id 2, which  *)
(* use the same chat_id and msg_id values                                     *)

Tenants == {1, 2}

\* The body both users push: the chat c1, the message m1, a message without
\* msg_id and a document
TenantBodies ==
    { Body(<<Chat("c1", "t", NullTs)>>,
           <<Msg("c1", "m1", "user", "a", NullTs), Msg("c1", "", "user", "a", NullTs)>>,
           "d1") }

\* What the store holds of the user 2 at the start
InitTwo ==
    /\ now = T0
    /\ events = 0
    /\ users \in { (2 :> UserRow("free", NullTs, 2, 1, nextAlmatyMidnightISO(T0))),
                    (1 :> UserRow("free", NullTs, 0, 0, nextAlmatyMidnightISO(T0 - MIN_PER_DAY)))
                       @@ (2 :> UserRow("free", NullTs, 2, 1, NullTs)) }
    /\ payments = {}
    /\ procs = [p \in Procs |-> Idle]
    /\ sweep = SweepIdle
    /\ stats = [NoStats EXCEPT !.log = TRUE]
    /\ chats = {[tg_id |-> 2, chat_id |-> "c1", title |-> "t2", emoji |-> DEFAULT_EMOJI,
                 updated_at |-> T0 - 60]}
    /\ messages = SetToBag({[tg_id |-> 2, chat_id |-> "c1", msg_id |-> "m1",
                             role |-> "assistant", content |-> "b", created_at |-> T0 - 60]})
    /\ tasks = (2 :> "d2")
    /\ client = NoClient

NextTwo ==
    \/ \E tg \in Tenants : UserInit(1, tg)
    \/ \E tg \in Tenants, kind \in Kinds : Consume(1, tg, kind)
    \/ \E tg \in Tenants, body \in TenantBodies : SyncPush(1, tg, body)
    \/ \E tg \in Tenants : SyncPull(1, tg, NullTs)
    \/ InsertUser(1)
    \/ PatchUser(1)
    \/ ResetUser(1)
    \/ Decrement(1)
    \/ UpsertChats(1)
    \/ UpsertMessages(1)
    \/ InsertMessages(1)
    \/ SaveTasksState(1)
    \/ ListChats(1)
    \/ ListMessages(1)
    \/ LoadTasksState(1)

SpecTwo == InitTwo /\ [][NextTwo]_vars

-----------------------------------------------------------------------------
(* Properties of the quota resolver, the ledger and the quota worker *)

\* This step is the pending store call of the request in slot p
StepOf(p, pc) == procs[p].pc = pc /\ procs'[p] # procs[p]

\* C1: when two consume(media) requests run concurrently against a row of a
\* finite-limit tier with media_left = 1 and no reset due, exactly one is granted
\* and the other is denied with no_media_left.
C1_LastUnitGrantedOnce ==
    (/\ stats.on
     /\ stats.row0.media_left = 1
     /\ stats.overlap
     /\ stats.started = 2
     /\ stats.media.done = 2)
    => (stats.media.granted = 1 /\ stats.media.denied = 1)

\* What a payment may change in a user's row
Ledger(row) == <<row.premium_until, row.tier, row.plans_left, row.media_left>>

\* C2: a successful_payment update whose (user id, provider charge id) was
\* already recorded leaves premium_until, tier and the quota counters as the
\* first delivery left them: no step of its handler changes them.
C2_RetryChangesNothing ==
    [][\A p \in Procs :
          (procs[p].op = "webhook" /\ procs[p].dup /\ procs'[p] # procs[p])
          => Ledger(users'[procs[p].tg_id]) = Ledger(users[procs[p].tg_id])]_vars

\* C3: for a finite-limit user that starts with plans_left = N > 0 and no reset
\* due, consecutive consume(plans) calls are granted N times, every later one is
\* denied with no_plans_left, and the stored counter goes down to 0 and stays.
C3_PlansUntilEmpty ==
    LET N       == stats.row0.plans_left
        granted == Min(stats.plans.done, N)
    IN  (stats.on /\ ~stats.overlap /\ N > 0)
        => /\ stats.plans.granted = granted
           /\ stats.plans.denied = stats.plans.done - granted
           /\ users[TheUser].plans_left = N - granted

\* N calls were granted, the (N+1)th was denied, the counter is 0
C3_Witness ==
    /\ stats.on /\ ~stats.overlap
    /\ stats.row0.plans_left = MaxLeft
    /\ stats.plans.granted = MaxLeft
    /\ stats.plans.denied = 1
    /\ stats.plans.done = MaxLeft + 1
    /\ users[TheUser].plans_left = 0

\* C4: in every reachable state, under any interleaving of consume requests,
\* lazy resets, sweep runs and premium activations, every user's stored
\* plans_left and media_left are greater than or equal to 0.
C4_CountersNeverNegative ==
    \A tg \in DOMAIN users : users[tg].plans_left >= 0 /\ users[tg].media_left >= 0

\* A request is about to write 0 into a counter that another request has
\* already brought to 0
C4_Witness ==
    \E p \in Procs :
        /\ procs[p].pc = "decr"
        /\ procs[p].arg.v = 0
        /\ procs[p].user[procs[p].arg.f] = 1
        /\ users[procs[p].tg_id][procs[p].arg.f] = 0

\* C5: activatePremiumForUser sets premium_until to max(current premium_until,
\* now) plus 30 days for plan month or 365 days for plan year.
C5_ExpiryExtends ==
    [][\A p \in Procs :
          StepOf(p, "activate")
          => LET tg   == procs[p].tg_id
                 days == IF procs[p].plan = "month" THEN 30 ELSE 365
             IN  users'[tg].premium_until =
                     Max(users[tg].premium_until, procs[p].tAct) + days * MIN_PER_DAY]_vars

\* A month was bought one day before the expiry T0 + 1d: the expiry is T0 + 31d
C5_Witness ==
    /\ now = T0
    /\ payments # {}
    /\ \A p \in Procs : procs[p].pc = "idle"
    /\ TheUser \in DOMAIN users
    /\ users[TheUser].premium_until = T0 + MIN_PER_DAY + 30 * MIN_PER_DAY

\* The row is due at time t: its boundary is set and has passed
Due(row, t) == row.exists /\ row.quota_next_reset_at # NullTs /\ t >= row.quota_next_reset_at

\* A resolve does not hand a due row to its caller: the request goes on to
\* consumeQuota's or activatePremiumForUser's UPDATE only with a row that was not
\* due when the resolve looked at it
NoSkip(p) ==
    (procs[p].pc \in {"idle", "select"} /\ procs'[p].pc \in {"decr", "activate"})
    => ~Due(users[procs'[p].tg_id], now)

\* C6 as the specification states it: if a user's quota_next_reset_at has
\* passed, the next resolve sets plans_left and media_left to the configured daily
\* limits of the user's effective tier, whatever their previous values, for every
\* tier (free, premium, developer).
C6_ResetToLimitsOfEveryTier ==
    [][\A p \in Procs :
          /\ NoSkip(p)
          /\ StepOf(p, "reset")
             => LET lim == DAILY_LIMITS[effectiveTier(procs[p].user, procs[p].seenAt)]
                    row == users'[procs[p].tg_id]
                IN  /\ Fin(row.plans_left) = lim.plans
                    /\ Fin(row.media_left) = lim.media]_vars

\* C6 as the code has it: if a user's quota_next_reset_at has passed, the next
\* resolve moves the boundary past the time of the resolve and, for the effective
\* tiers free and premium, sets plans_left and media_left to the tier's daily
\* limits whatever their previous values; the counters of a developer, whose
\* limits are not finite, are left as they were.
C6_ResetToFiniteLimits ==
    [][\A p \in Procs :
          /\ NoSkip(p)
          /\ StepOf(p, "reset")
             => LET tier == effectiveTier(procs[p].user, procs[p].seenAt)
                    lim  == DAILY_LIMITS[tier]
                    old  == users[procs[p].tg_id]
                    row  == users'[procs[p].tg_id]
                IN  /\ row.quota_next_reset_at > procs[p].seenAt
                    /\ tier \in {"free", "premium"}
                       => /\ Fin(row.plans_left) = lim.plans
                          /\ Fin(row.media_left) = lim.media
                    /\ tier = "developer"
                       => /\ row.plans_left = old.plans_left
                          /\ row.media_left = old.media_left]_vars

\* The first request of the run found a free row due and reset it from 0/0 to
\* the free limits before consumeQuota read it
C6_Witness ==
    \E p \in Procs :
        /\ events = 1
        /\ procs[p].pc = "decr"
        /\ procs[p].seenAt = T0
        /\ effectiveTier(procs[p].user, T0) = "free"
        /\ users[procs[p].tg_id].plans_left = 3
        /\ users[procs[p].tg_id].media_left = 3
        /\ users[procs[p].tg_id].quota_next_reset_at > now

\* The row's premium_until has passed at time t
Lapsed(row, t) == row.premium_until # NullTs /\ row.premium_until <= t

\* This step resets the counters of user tg after the user's premium has
\* expired: the lazy reset of a resolve that looked after the expiry, or an
\* UPDATE of a sweep that read the clock after the expiry
ResetAfterExpiry(tg) ==
    \/ \E p \in Procs : /\ StepOf(p, "reset")
                        /\ procs[p].tg_id = tg
                        /\ Lapsed(users[tg], procs[p].seenAt)
    \/ /\ sweep.pc \in {"free", "premium"}
       /\ sweep' # sweep
       /\ users'[tg] # users[tg]
       /\ Lapsed(users[tg], sweep.now)

\* C7: for a non-developer user whose premium_until has passed, every reset of
\* the counters after the expiry, by a request or by the quota worker, sets
\* plans_left and media_left to the limits of the free tier.
C7_LapsedPremiumResetsToFree ==
    [][\A tg \in DOMAIN users :
          (users[tg].tier # "developer" /\ ResetAfterExpiry(tg))
          => /\ users'[tg].plans_left = DAILY_LIMITS.free.plans.n
             /\ users'[tg].media_left = DAILY_LIMITS.free.media.n]_vars

-----------------------------------------------------------------------------
(* Properties of the sync reconciler *)

\* A submitted message the specification calls valid
ValidMessage(m) == m.chat_id # "" /\ m.role \in {"user", "assistant"} /\ m.content # ""

\* How many rows of the table carry the identifier
Stored(bag, tg, id) ==
    BagCardinality([r \in {x \in DOMAIN bag : x.tg_id = tg /\ x.msg_id = id} |-> bag[r]])

\* How many messages of a pulled list carry the identifier
RECURSIVE Returned(_, _)
Returned(runs, id) ==
    IF runs = <<>> THEN 0
    ELSE (IF Head(runs).row.msg_id = id THEN Head(runs).n ELSE 0) + Returned(Tail(runs), id)

\* The stored rows of the user that the cursor of a pull selects
Selected(tg, since) ==
    [r \in {x \in DOMAIN messages : x.tg_id = tg /\ (since # NullTs => x.created_at >= since)}
        |-> messages[r]]

\* After an upsert of a batch that names each identifier once, every identifier
\* of a valid row of the batch is stored once; and no step leaves an identifier
\* stored twice
OneRowPerId(p) ==
    /\ \A r \in DOMAIN messages' : r.msg_id # "" => Stored(messages', r.tg_id, r.msg_id) = 1
    /\ StepOf(p, "upsertMsgs")
       => LET ms == procs[p].body.messages_upsert
              I  == {i \in DOMAIN ms : ValidMessage(ms[i]) /\ ms[i].msg_id # ""}
          IN  (\A i, j \in I : i # j => ms[i].msg_id # ms[j].msg_id)
              => \A i \in I : Stored(messages', procs[p].tg_id, ms[i].msg_id) = 1

\* C8 as the specification states it: pushing the same message (same user, same
\* non-empty msg_id) any number of times leaves exactly one stored row with that
\* identifier, and a following pull (whose cursor does not exclude it) returns
\* that message exactly once.
C8_OneRowPulledOnce ==
    [][\A p \in Procs :
          /\ OneRowPerId(p)
          /\ StepOf(p, "listMessages")
             => \A r \in DOMAIN Selected(procs[p].tg_id, procs[p].since) :
                   r.msg_id # "" => Returned(procs'[p].messages, r.msg_id) = 1]_vars

\* C8 as the code has it: pushing the same message (same user, same non-empty
\* msg_id, once per batch) any number of times leaves exactly one stored row with
\* that identifier; a following pull returns that message at most once, and
\* exactly once when the rows its cursor selects are no more than the limit of
\* 4000 rows that listMessages reads.
C8_OneRowPulledOnceWithinLimit ==
    [][\A p \in Procs :
          /\ OneRowPerId(p)
          /\ StepOf(p, "listMessages")
             => LET sel == Selected(procs[p].tg_id, procs[p].since)
                IN  \A r \in DOMAIN sel :
                       r.msg_id # ""
                       => /\ Returned(procs'[p].messages, r.msg_id) <= 1
                          /\ BagCardinality(sel) <= MESSAGES_LIMIT
                             => Returned(procs'[p].messages, r.msg_id) = 1]_vars

\* Message m1 was pushed twice (once with the chat c1, once with the document
\* d1), is stored once and a pull has read it once
C8_Witness ==
    /\ events = 3
    /\ tasks = (TheUser :> "d1")
    /\ chats = {[tg_id |-> TheUser, chat_id |-> "c1", title |-> DEFAULT_TITLE,
                 emoji |-> DEFAULT_EMOJI, updated_at |-> T0]}
    /\ Stored(messages, TheUser, "m1") = 1
    /\ \E p \in Procs : /\ procs[p].pc = "loadTasks"
                        /\ Returned(procs[p].messages, "m1") = 1

\* C9: pushing the same batch of N valid messages without msg_id twice results
\* in 2N stored rows: every insert of such a batch adds N rows to the table and
\* removes none, whatever the table already holds.
C9_IdlessAlwaysAppended ==
    [][\A p \in Procs :
          StepOf(p, "insertMsgs")
          => LET ms == procs[p].body.messages_upsert
                 N  == Cardinality({i \in DOMAIN ms : ValidMessage(ms[i]) /\ ms[i].msg_id = ""})
             IN  /\ N > 0
                 /\ BagCardinality(messages') = BagCardinality(messages) + N
                 /\ \A r \in DOMAIN messages : CopiesIn(r, messages') >= CopiesIn(r, messages)]_vars

\* The batch of two messages without msg_id was pushed twice at the same time:
\* four rows, two of each
C9_Witness ==
    /\ events = 2
    /\ \A p \in Procs : procs[p].pc = "idle"
    /\ BagCardinality(messages) = 4
    /\ \A r \in DOMAIN messages : r.msg_id = "" /\ messages[r] = 2

\* The timestamps of a list do not go up
NonIncreasing(ts) ==
    \A i \in DOMAIN ts : \A j \in DOMAIN ts : i < j => ts[i] >= ts[j]

\* C10: a pull returns the user's chats in non-increasing updated_at order and
\* the user's messages in non-decreasing created_at order, whatever the order in
\* which they were pushed.
C10_PullOrder ==
    \A p \in Procs :
        procs[p].op = "pull"
        => /\ NonIncreasing([i \in DOMAIN procs[p].chats |-> procs[p].chats[i].updated_at])
           /\ NonIncreasing([i \in DOMAIN procs[p].messages |->
                                0 - procs[p].messages[i].row.created_at])

\* A pull has read two chats and two messages that were pushed in the opposite
\* order
C10_Witness ==
    \E p \in Procs :
        /\ procs[p].pc = "loadTasks"
        /\ Len(procs[p].chats) = 2
        /\ procs[p].chats[1].chat_id = "c1"
        /\ procs[p].chats[1].updated_at > procs[p].chats[2].updated_at
        /\ Len(procs[p].messages) = 2
        /\ procs[p].messages[1].row.msg_id = "m2"
        /\ procs[p].messages[1].row.created_at < procs[p].messages[2].row.created_at

\* The columns a pull returns of a stored message
Columns(r) ==
    [chat_id |-> r.chat_id, msg_id |-> r.msg_id, role |-> r.role, content |-> r.content,
     created_at |-> r.created_at]

\* How many messages of a pulled list are equal to the row
RECURSIVE Copies(_, _)
Copies(runs, row) ==
    IF runs = <<>> THEN 0
    ELSE (IF Head(runs).row = row THEN Head(runs).n ELSE 0) + Copies(Tail(runs), row)

\* How many messages a pulled list holds
RECURSIVE Size(_)
Size(runs) == IF runs = <<>> THEN 0 ELSE Head(runs).n + Size(Tail(runs))

\* The chats of the user, in the columns a pull returns
ChatsOf(tg) ==
    {[chat_id |-> r.chat_id, title |-> r.title, emoji |-> r.emoji, updated_at |-> r.updated_at] :
        r \in {x \in chats : x.tg_id = tg}}

\* The list holds every element of the set once
Enumerates(list, S) ==
    /\ Len(list) = Cardinality(S)
    /\ {list[i] : i \in DOMAIN list} = S

\* C11 as the specification states it: a pull with a cursor returns every stored
\* message of the user whose created_at is at or after the cursor, a pull without
\* a cursor returns every stored message of the user, and both return every chat
\* of the user.
C11_PullReturnsAll ==
    [][\A p \in Procs :
          /\ StepOf(p, "listChats")
             => Enumerates(procs'[p].chats, ChatsOf(procs[p].tg_id))
          /\ StepOf(p, "listMessages")
             => LET sel == Selected(procs[p].tg_id, procs[p].since)
                    out == procs'[p].messages
                IN  /\ Size(out) = BagCardinality(sel)
                    /\ \A r \in DOMAIN sel : Copies(out, Columns(r)) = sel[r]]_vars

\* C11 as the code has it: a pull returns, of the stored messages of the user
\* that its cursor selects (all of them without a cursor, those with created_at at
\* or after it with one), the 4000 with the earliest created_at, and so every one
\* of them when they are no more than 4000; it returns every chat of the user
\* when the user has no more than 200 chats.
C11_PullReturnsAllWithinLimit ==
    [][\A p \in Procs :
          /\ (StepOf(p, "listChats") /\ Cardinality(ChatsOf(procs[p].tg_id)) <= CHATS_LIMIT)
             => Enumerates(procs'[p].chats, ChatsOf(procs[p].tg_id))
          /\ StepOf(p, "listMessages")
             => LET sel == Selected(procs[p].tg_id, procs[p].since)
                    out == procs'[p].messages
                IN  /\ Size(out) = Min(BagCardinality(sel), MESSAGES_LIMIT)
                    /\ \A i \in DOMAIN out : \E r \in DOMAIN sel : Columns(r) = out[i].row
                    /\ \A r \in DOMAIN sel :
                          /\ Copies(out, Columns(r)) <= sel[r]
                          /\ Copies(out, Columns(r)) < sel[r]
                             => \A i \in DOMAIN out : out[i].row.created_at <= r.created_at]_vars

\* A pull with the cursor an hour before the start has read both chats and
\* message m1, which is after the cursor, and not m2, which is before it
C11_Witness ==
    \E p \in Procs :
        /\ procs[p].pc = "loadTasks"
        /\ procs[p].since = T0 - 60
        /\ Len(procs[p].chats) = 2
        /\ Stored(messages, TheUser, "m1") = 1
        /\ Stored(messages, TheUser, "m2") = 1
        /\ Returned(procs[p].messages, "m1") = 1
        /\ Returned(procs[p].messages, "m2") = 0

\* This step sends a response
Replies == stats'.sent = stats.sent + 1

-----------------------------------------------------------------------------
(* The webhook *)

\* The last response sent is one of POST /telegram/webhook
HookReplied == stats.sent > 0 /\ stats.last.op \in {"webhook", "precheckout"}

\* C13: POST /telegram/webhook answers HTTP 200 to every request, whatever the
\* internal outcome (invalid payload, store error, Telegram API error, duplicate
\* payment or any other failure).
C13_WebhookAlways200 == HookReplied => stats.status = 200

\* C13, amended: POST /telegram/webhook answers HTTP 401 to a request whose
\* secret header is not the configured secret, and HTTP 200 to every other
\* request, whatever the internal outcome.
C13_Webhook200PastSecret ==
    HookReplied => stats.status = IF secretOk(stats.last.secret) THEN 200 ELSE 401

\* A webhook request that failed at the store (the INSERT of the user row met a
\* row created meanwhile) was answered, with 200
C13_Witness ==
    /\ HookReplied
    /\ stats.last.res = "server_error"
    /\ stats.status = 200

\* The payload carries a numeric user id: a number, or a string of digits
carriesUserId(payload) ==
    \/ payload.tg_id.k = "number"
    \/ payload.tg_id.k = "string" /\ Number(payload.tg_id).fin /\ payload.tg_id.s # ""

\* The gate answered the query of the response q, and what it answered
Answered(q) == q.op = "precheckout" /\ q.res \in {"ok", "rejected"}

\* The columns of the users' rows that a payment or a reset changes
SameQuotaAndPremium ==
    \A tg \in DOMAIN users :
        /\ tg \in DOMAIN users'
        /\ users'[tg].tier = users[tg].tier
        /\ users'[tg].premium_until = users[tg].premium_until
        /\ users'[tg].plans_left = users[tg].plans_left
        /\ users'[tg].media_left = users[tg].media_left

\* C14: the pre-checkout gate accepts exactly when the invoice payload carries a
\* numeric user id and a plan in {month, year}; whether it accepts or rejects it
\* records no payment and changes no existing user's premium_until, tier or quota
\* counters, and handling the same query twice leaves the same store state as
\* handling it once (the query that was answered last, when it comes again, is
\* answered without a store call left to make).
C14_PreCheckoutGate ==
    [][\A p \in Procs :
         LET pr == procs[p]
             q  == stats'.last
         IN  /\ (Replies /\ Answered(q)) =>
                    (q.res = "ok" <=>
                        carriesUserId(q.payload) /\ q.payload.plan \in {"month", "year"})
             /\ (pr.op = "precheckout" /\ procs'[p] # pr) =>
                    payments' = payments /\ SameQuotaAndPremium
             /\ (/\ stats.sent > 0 /\ Answered(stats.last)
                 /\ pr.pc = "idle" /\ procs'[p].op = "precheckout") =>
                    procs'[p].payload # stats.last.payload]_vars

\* A secret is configured and the header got is missing or different
BadSecret(got) == TELEGRAM_WEBHOOK_SECRET # "" /\ got # TELEGRAM_WEBHOOK_SECRET

StoreUnchanged == UNCHANGED <<users, payments, chats, messages, tasks>>

\* C15: when a webhook secret is configured, a webhook request whose secret
\* header is missing or different causes no store change at all: no user row is
\* created or reset, no payment is recorded and no premium is activated (the
\* request is answered in the step of its arrival, which changes no table, and
\* never waits for a store call).
C15_BadSecretChangesNothing ==
    [][/\ (Replies /\ stats'.last.op \in {"webhook", "precheckout"}
                   /\ BadSecret(stats'.last.secret)) => StoreUnchanged
       /\ \A p \in Procs :
            (procs'[p].op \in {"webhook", "precheckout"} /\ procs'[p] # procs[p]) =>
                ~BadSecret(procs'[p].secret)]_vars

\* A request without the secret header was answered while a user row is stored
C15_Witness ==
    /\ HookReplied
    /\ stats.last.secret = ""
    /\ stats.last.res = "bad_secret"
    /\ users # <<>>

-----------------------------------------------------------------------------
(* The quota rules *)

\* C16: the effective tier of a user is developer if the stored tier is
\* developer (in any letter case); otherwise premium if premium_until is non-null
\* and strictly in the future; otherwise free, for every combination of stored
\* tier, premium_until and current time.
C16_EffectiveTier ==
    stats.fn = "effectiveTier" =>
        LET user == users[TheUser]
        IN  stats.tier =
                IF user.tier \in {"developer", "Developer"} THEN "developer"
                ELSE IF user.premium_until # NullTs /\ user.premium_until > now
                     THEN "premium"
                     ELSE "free"

\* effectiveTier was applied to a row labelled premium whose premium_until is the
\* current instant: the premium is over
C16_Witness ==
    /\ stats.fn = "effectiveTier"
    /\ users[TheUser].tier = "premium"
    /\ users[TheUser].premium_until = now
    /\ stats.tier = "free"

\* The day of the UTC+5 frame that holds the instant t
almatyDay(t) == (t + RESET_TZ_OFFSET_MIN) \div MIN_PER_DAY

\* C17: for every instant now, the reset boundary computed by
\* nextAlmatyMidnightISO(now) is the earliest midnight of the UTC+5 frame
\* strictly after now: it is greater than now, at most 24 hours after now, and
\* identical for any two instants of the same UTC+5 day.
C17_NextMidnight ==
    stats.fn = "nextAlmatyMidnightISO" =>
        /\ stats.boundary > now
        /\ stats.boundary <= now + MIN_PER_DAY
        /\ (stats.boundary + RESET_TZ_OFFSET_MIN) % MIN_PER_DAY = 0
        /\ \A t \in Instants :
              almatyDay(t) = almatyDay(now) =>
                  nextAlmatyMidnightAt(t, stats.zone) = stats.boundary

\* The positions of a request inside getOrCreateUserAndFreshen, or before it
InResolve == {"idle", "select", "insert", "patch", "reset"}

\* The request in slot p after the step: the response, if the step sent one
After(p) == IF procs'[p].pc = "idle" THEN stats'.last ELSE procs'[p]

\* In this step the resolve of the request in slot p returned a row
Resolves(p) ==
    /\ procs[p].pc \in InResolve
    /\ procs'[p] # procs[p] \/ Replies
    /\ After(p).pc \notin InResolve
    /\ After(p).user.exists
    /\ After(p).res # "server_error"

\* C18: the user row returned by resolve (getOrCreateUserAndFreshen) always has
\* quota_next_reset_at strictly later than the time of the call, including for
\* newly created users and for rows whose quota_next_reset_at was missing.
C18_ResolvedResetInFuture ==
    [][\A p \in Procs :
         Resolves(p) => After(p).user.quota_next_reset_at > After(p).calledAt]_vars

\* A resolve that had to write, and during which the clock moved on, has
\* returned its row
C18_Witness ==
    /\ stats.sent > 0
    /\ stats.last.op = "init"
    /\ stats.last.res = "ok"
    /\ stats.last.calledAt < now
    /\ stats.last.calledAt # NullTs
    /\ stats.last.seenAt = NullTs
    /\ stats.last.user.quota_next_reset_at > stats.last.calledAt

\* The slot whose request is answered in this step
Replier(p) == Replies /\ IF procs' = procs THEN Free(p) ELSE procs'[p] # procs[p]

\* The consume answered in this step was denied for want of quota
Denied == stats'.last.op = "consume"
              /\ stats'.last.res \in {"no_plans_left", "no_media_left"}

\* The user's row as the call found it: the row its SELECT read
RowBefore(p) == IF procs[p].pc = "idle" THEN Lookup(stats'.last.tg_id) ELSE procs[p].user

RowAfter == users'[stats'.last.tg_id]

SameBut(before, after, columns) ==
    \A c \in {"plans_left", "media_left", "quota_next_reset_at", "tier", "premium_until"}
            \ columns : after[c] = before[c]

\* C19: a consume that is denied because the remaining count is 0 or less writes
\* nothing: the user's plans_left, media_left, quota_next_reset_at, tier and
\* premium_until are the same after the call as before it.
C19_DeniedWritesNothing ==
    [][\A p \in Procs :
         (Replier(p) /\ Denied) => SameBut(RowBefore(p), RowAfter, {})]_vars

\* C19, amended: a consume that is denied leaves the user's plans_left,
\* media_left, tier and premium_until as they were before the call, and
\* quota_next_reset_at too unless it was missing: the resolve of the call then
\* sets it to the next reset boundary.
C19_DeniedWritesBoundaryOnly ==
    [][\A p \in Procs :
         (Replier(p) /\ Denied) =>
             LET before == RowBefore(p)
             IN  IF before.quota_next_reset_at # NullTs
                 THEN SameBut(before, RowAfter, {})
                 ELSE /\ SameBut(before, RowAfter, {"quota_next_reset_at"})
                      /\ RowAfter.quota_next_reset_at =
                             nextAlmatyMidnightISO(stats'.last.calledAt)]_vars

\* The first request, a consume(plans) of the row that starts with no plans
\* left, two media left and no quota_next_reset_at, was denied, and the row now
\* has a boundary
C19_Witness ==
    /\ events = 1
    /\ stats.sent = 1
    /\ stats.last.op = "consume"
    /\ stats.last.res = "no_plans_left"
    /\ users[stats.last.tg_id].plans_left = 0
    /\ users[stats.last.tg_id].media_left = 2
    /\ users[stats.last.tg_id].quota_next_reset_at = stats.last.nextReset

\* C20: after activatePremiumForUser completes, the user's plans_left and
\* media_left equal the premium daily limits and quota_next_reset_at equals the
\* next reset boundary (the one after the instant at which the call computed
\* it), whatever the counters were before.
C20_ActivationRefillsQuota ==
    [][\A p \in Procs :
         StepOf(p, "activate") =>
             LET row == users'[procs[p].tg_id]
             IN  /\ row.plans_left = DAILY_LIMITS.premium.plans.n
                 /\ row.media_left = DAILY_LIMITS.premium.media.n
                 /\ row.quota_next_reset_at = nextAlmatyMidnightISO(procs[p].tAct)
                 /\ row.quota_next_reset_at > procs[p].tAct]_vars

\* The first request, a payment, has activated premium for a row, which now has
\* the premium limits and the boundary of the activation
C20_Witness ==
    /\ events = 1
    /\ stats.sent = 1
    /\ stats.last.op = "webhook"
    /\ stats.last.res = "ok"
    /\ LET row == users[stats.last.tg_id]
       IN  /\ row.tier = "premium"
           /\ row.plans_left = 30
           /\ row.media_left = 30
           /\ row.quota_next_reset_at = stats.last.arg.reset

-----------------------------------------------------------------------------
(* The endpoints that call the language model *)

NoQuota == {"no_plans_left", "no_media_left"}

\* The response q refuses the request before its consumeQuota
Invalid(q) == q.res \in {"tg_id_required", "chat_id_required", "file_required", "text_required"}

\* C21: in /api/plan/create and /api/chat/attach the language model is invoked
\* only after consume granted a unit in the same request (consumeQuota returned
\* ok); when consume denies, the request ends with HTTP 403 carrying error
\* no_plans_left or no_media_left and the model is never invoked.
C21_ModelOnlyAfterGrant ==
    [][\A p \in Procs :
         /\ (procs[p].op \in {"plan", "attach"} /\ StepOf(p, "gemini")) => procs[p].granted
         /\ (Replier(p) /\ stats'.last.op \in {"plan", "attach"}) =>
                LET q == stats'.last
                IN  /\ q.llm > 0 => q.granted
                    /\ q.res \in NoQuota =>
                          /\ stats'.status = 403
                          /\ q.llm = 0
                          /\ ~q.granted
                          /\ q.res = IF q.op = "plan" THEN "no_plans_left" ELSE "no_media_left"
                    /\ (~q.granted /\ ~Invalid(q) /\ q.res # "server_error") =>
                          q.res \in NoQuota]_vars

\* An attach with an image was refused for want of media quota, with 403 and
\* without a call of the model
C21_Witness ==
    /\ stats.sent > 0
    /\ stats.last.op = "attach"
    /\ stats.last.file = "image"
    /\ stats.last.res = "no_media_left"
    /\ stats.status = 403
    /\ stats.last.llm = 0

\* The request answered in this step was granted its unit and then failed at
\* the call of the model
FailedAfterGrant(q) ==
    /\ q.op \in {"plan", "attach"}
    /\ q.granted
    /\ q.llm > 0
    /\ q.gemini = "error"
    /\ q.res = "server_error"

\* C22: if the language-model call fails after consume was granted, the
\* decrement is kept: the stored counter after the failed request is exactly one
\* less than before the request and is never refunded (for a user of a tier with
\* finite limits, the only ones consume decrements).
C22_FailedCallKeepsDecrement ==
    [][\A p \in Procs :
         (/\ Replier(p) /\ FailedAfterGrant(stats'.last)
          /\ effectiveTier(stats'.last.user, stats'.last.calledAt) # "developer") =>
             LET q == stats'.last
                 f == leftField(q.kind)
             IN  /\ q.before.exists
                 /\ users'[q.tg_id][f] = q.before[f] - 1]_vars

\* The counter that the resolve of the request q returns: the limit of the tier
\* for a new row and for a row that is due, the stored counter otherwise
Resolved(q) ==
    LET row == q.before
        f   == leftField(q.kind)
        due == row.quota_next_reset_at # NullTs /\ row.quota_next_reset_at <= q.calledAt
    IN  IF ~row.exists THEN DAILY_LIMITS.free[q.kind].n
        ELSE IF due THEN DAILY_LIMITS[effectiveTier(row, q.calledAt)][q.kind].n
        ELSE row[f]

\* C22, amended: if the language-model call fails after consume was granted, the
\* decrement is kept and never refunded: for a user of a tier with finite limits
\* the stored counter after the failed request is exactly one less than the
\* counter the request's resolve returned (the counter stored before the
\* request, or the daily limit when the row was created or reset by the resolve);
\* for a developer consume writes nothing and the counter is as before.
C22_FailedCallKeepsDecrementOfResolved ==
    [][\A p \in Procs :
         (Replier(p) /\ FailedAfterGrant(stats'.last)) =>
             LET q == stats'.last
                 f == leftField(q.kind)
             IN  /\ users' = users
                 /\ IF effectiveTier(q.user, q.calledAt) = "developer"
                    THEN users'[q.tg_id][f] = q.before[f]
                    ELSE users'[q.tg_id][f] = Resolved(q) - 1]_vars

\* A plan request of a user with one plan left failed at the call of the model,
\* and the user has no plan left
C22_Witness ==
    /\ stats.sent > 0
    /\ FailedAfterGrant(stats.last)
    /\ stats.last.op = "plan"
    /\ stats.last.before.exists
    /\ stats.last.before.plans_left = 1
    /\ users[stats.last.tg_id].plans_left = 0

-----------------------------------------------------------------------------
(* The frame of the sync endpoints *)

\* A step of the pull in slot p
PullStep(p) ==
    \/ procs[p].op = "pull" /\ procs'[p] # procs[p]
    \/ Replier(p) /\ stats'.last.op = "pull"

\* The step creates the row of the user tg, with the free limits
CreatesRow(tg) ==
    /\ tg \notin DOMAIN users
    /\ users' = (tg :> UserRow("free", NullTs, DAILY_LIMITS.free.plans.n,
                               DAILY_LIMITS.free.media.n, users'[tg].quota_next_reset_at))
                    @@ users

\* The step resets the quota of the user tg, which is due
ResetsDueRow(tg) ==
    /\ tg \in DOMAIN users
    /\ users[tg].quota_next_reset_at # NullTs
    /\ users[tg].quota_next_reset_at <= now
    /\ users' = [users EXCEPT ![tg] = users'[tg]]
    /\ SameBut(users[tg], users'[tg], {"plans_left", "media_left", "quota_next_reset_at"})
    /\ users'[tg].quota_next_reset_at > users[tg].quota_next_reset_at

\* The step sets the quota_next_reset_at that the row of the user tg lacks
SetsMissingBoundary(tg) ==
    /\ tg \in DOMAIN users
    /\ users[tg].quota_next_reset_at = NullTs
    /\ users' = [users EXCEPT ![tg] = users'[tg]]
    /\ SameBut(users[tg], users'[tg], {"quota_next_reset_at"})
    /\ users'[tg].quota_next_reset_at # NullTs

\* The response of a pull carries the counters of the stored row
FreshCounters ==
    \A p \in Procs :
        (Replier(p) /\ stats'.last.op = "pull" /\ stats'.last.res = "ok") =>
            LET q == stats'.last
            IN  /\ q.user.plans_left = users'[q.tg_id].plans_left
                /\ q.user.media_left = users'[q.tg_id].media_left
                /\ q.user.quota_next_reset_at = users'[q.tg_id].quota_next_reset_at
                /\ q.user.quota_next_reset_at > q.calledAt

\* C23: a pull never creates, changes or deletes any chat, message or task-state
\* row; the only store writes it may perform are creating the requesting user's
\* row and resetting that user's quota when due, so the counters in the response
\* are the freshly resolved ones.
C23_PullWritesOnlyResolve ==
    [][/\ \A p \in Procs :
            PullStep(p) =>
                LET tg == IF procs[p].op = "pull" THEN procs[p].tg_id ELSE stats'.last.tg_id
                IN  /\ UNCHANGED <<chats, messages, tasks, payments>>
                    /\ users' = users \/ CreatesRow(tg) \/ ResetsDueRow(tg)
       /\ FreshCounters]_vars

\* C23, amended: a pull never creates, changes or deletes any chat, message or
\* task-state row; the only store writes it may perform are those of its resolve
\* on the requesting user's row: creating it, setting a quota_next_reset_at that
\* is missing, and resetting the quota when due; the counters in the response
\* are the freshly resolved ones.
C23_PullWritesOnlyResolveOrBoundary ==
    [][/\ \A p \in Procs :
            PullStep(p) =>
                LET tg == IF procs[p].op = "pull" THEN procs[p].tg_id ELSE stats'.last.tg_id
                IN  /\ UNCHANGED <<chats, messages, tasks, payments>>
                    /\ \/ users' = users
                       \/ CreatesRow(tg)
                       \/ ResetsDueRow(tg)
                       \/ SetsMissingBoundary(tg)
       /\ FreshCounters]_vars

\* A pull of a user whose quota was due has answered, with chats, messages and
\* a document stored, and with the counters of the reset in its response
C23_Witness ==
    /\ stats.sent > 0
    /\ stats.last.op = "pull"
    /\ stats.last.res = "ok"
    /\ stats.last.seenAt # NullTs
    /\ stats.last.user.plans_left = DAILY_LIMITS.free.plans.n
    /\ users[stats.last.tg_id].plans_left = DAILY_LIMITS.free.plans.n
    /\ chats # {}
    /\ messages # EmptyBag
    /\ stats.last.tg_id \in DOMAIN tasks

\* The table holds the submitted message m of the user tg as a row
StoredCopy(bag, tg, m) ==
    \E r \in DOMAIN bag :
        /\ r.tg_id = tg /\ r.chat_id = m.chat_id /\ r.msg_id = m.msg_id
        /\ r.role = m.role /\ r.content = m.content
        /\ m.created_at # NullTs => r.created_at = m.created_at

\* The valid messages of a push, with a msg_id (id = TRUE) or without
ValidOf(pr, id) ==
    LET ms == pr.body.messages_upsert
    IN  {i \in DOMAIN ms : ValidMessage(ms[i]) /\ ((ms[i].msg_id # "") = id)}

\* No row comes into the table in this step but a valid message of the push
OnlyValidStored(pr) ==
    LET ms == pr.body.messages_upsert
    IN  \A r \in DOMAIN messages' :
            \/ r \in DOMAIN messages
            \/ \E i \in ValidOf(pr, TRUE) \cup ValidOf(pr, FALSE) :
                  StoredCopy(SetToBag({r}), pr.tg_id, ms[i])

\* The insert of the valid messages without msg_id stores each of them
InsertStoresValid(p) ==
    StepOf(p, "insertMsgs") =>
        LET pr == procs[p]
            ms == pr.body.messages_upsert
        IN  /\ After(p).res # "server_error"
            /\ BagCardinality(messages') =
                   BagCardinality(messages) + Cardinality(ValidOf(pr, FALSE))
            /\ \A i \in ValidOf(pr, FALSE) : StoredCopy(messages', pr.tg_id, ms[i])

-----------------------------------------------------------------------------
(* The quota worker *)

\* The quota of the user tg is due at the instant t, which the clock shows
DueAt(tg, t) ==
    /\ now = t
    /\ tg \in DOMAIN users
    /\ users[tg].quota_next_reset_at # NullTs
    /\ users[tg].quota_next_reset_at <= t

\* The row of the user tg has a boundary after the instant t and, where the
\* stored tier has finite limits, counters at those limits
ResetSince(tg, t) ==
    /\ tg \in DOMAIN users
    /\ users[tg].quota_next_reset_at > t
    /\ users[tg].tier \in {"free", "premium"} =>
          /\ users[tg].plans_left = DAILY_LIMITS[users[tg].tier].plans.n
          /\ users[tg].media_left = DAILY_LIMITS[users[tg].tier].media.n

-----------------------------------------------------------------------------
(* Concurrent writers of one user's row *)

\* C26: every granted consume lowers the stored counter by exactly one relative
\* to the value stored immediately before its write, under any interleaving with
\* other consume requests, lazy resets, sweep runs or activations on the same
\* user.
C26_GrantLowersStoredByOne ==
    [][\A p \in Procs :
          StepOf(p, "decr")
          => users'[procs[p].tg_id][procs[p].arg.f]
                = users[procs[p].tg_id][procs[p].arg.f] - 1]_vars

\* The columns a reset writes
Quota(row) == <<row.plans_left, row.media_left, row.quota_next_reset_at>>

\* C27: when the sweep worker and a lazy per-request reset race on the same due
\* user, the second reset to complete is a no-op rewrite: it leaves plans_left,
\* media_left and quota_next_reset_at exactly as they were immediately before it
\* wrote, for every interleaving including consume requests granted between the
\* two resets.  (First conjunct: the lazy UPDATE of a request writes a row that a
\* statement of the sweep in progress has already reset.  Second conjunct: a
\* statement of the sweep runs over a row that is no longer due at the instant
\* the sweep read.)
C27_SecondResetIsNoOp ==
    [][/\ \A p \in Procs :
             (StepOf(p, "reset") /\ procs[p].tg_id \in sweep.hit)
             => Quota(users'[procs[p].tg_id]) = Quota(users[procs[p].tg_id])
       /\ \A tg \in DOMAIN users :
             (/\ sweep.pc \in {"free", "premium"}
              /\ sweep' # sweep
              /\ users[tg].quota_next_reset_at > sweep.now)
             => Quota(users'[tg]) = Quota(users[tg])]_vars

\* What a run of the worker that reads the clock at t makes of a due row: its
\* two statements match the stored labels free and premium
bySweep(row, t) ==
    IF row.tier \in {"free", "premium"}
    THEN resetRow(row, row.tier, nextAlmatyMidnightISO(t))
    ELSE row

\* What a request that reads the clock at t makes of a due row it read
byRequest(row, t) == ApplyPatch(row, DueCheck([Idle EXCEPT !.user = row], t).arg)

\* C28: for every due user row, the reset performed by the sweep worker and the
\* reset performed by the lazy per-request path are the same transition:
\* starting from the same row at the same time they produce the same plans_left,
\* media_left and quota_next_reset_at.  (First conjunct: a row a statement of
\* the worker resets becomes what a request would have made of it.  Second
\* conjunct: a row a request resets becomes what the worker would have made of
\* the row the request read.)
C28_SweepAndLazyResetAgree ==
    [][/\ \A tg \in DOMAIN users :
             (/\ sweep' # sweep
              /\ sweep.pc \in {"free", "premium"}
              /\ tg \in dueRows(sweep.pc))
             => Quota(users'[tg]) = Quota(byRequest(users[tg], sweep.now))
       /\ \A p \in Procs :
             StepOf(p, "reset")
             => Quota(ApplyPatch(procs[p].user, procs[p].arg))
                   = Quota(bySweep(procs[p].user, procs[p].seenAt))]_vars

\* C29: two successful_payment events with different charge ids for the same
\* user, processed concurrently, extend premium_until by the sum of both plan
\* durations, the same result as processing them one after the other.  (Of two
\* deliveries with two charge ids, the activation that completes second adds the
\* days of its plan to the premium_until the first one stored.)
C29_TwoPaymentsAddUp ==
    [][\A p \in Procs :
          (/\ StepOf(p, "activate")
           /\ events = 2
           /\ payments = {<<procs[p].tg_id, charge>> : charge \in PaidCharges}
           /\ \A q \in Procs \ {p} : procs[q].pc = "idle")
          => users'[procs[p].tg_id].premium_until
                = addDaysISO(users[procs[p].tg_id].premium_until,
                             planToDays(procs[p].plan))]_vars

-----------------------------------------------------------------------------
(* One message sent and pushed *)

\* The request q is a /api/chat/send or a /api/sync/push that passed the
\* validation and carries the msg_id id
Carries(q, id) ==
    \/ q.op = "send" /\ q.msg_id = id /\ q.text # ""
    \/ q.op = "push" /\ \E i \in DOMAIN q.body.messages_upsert :
                            q.body.messages_upsert[i].msg_id = id

\* The number of stored messages of the user tg with the msg_id id
StoredWith(bag, tg, id) ==
    BagCardinality([r \in {x \in DOMAIN bag : msgKey(x) = <<tg, id>>} |-> bag[r]])

\* C30: for one user and one msg_id, a /api/chat/send request and a
\* /api/sync/push request that both carry that msg_id, in either order or
\* interleaved, leave exactly one stored message with that identifier and both
\* requests succeed.  (When the second of the two is answered, and they are the
\* only requests so far, both answers are ok and one message m1 is stored.)
C30_SendAndPushOfOneMessage ==
    [][(/\ Replies
        /\ events = 2
        /\ stats.sent = 1
        /\ Carries(stats.last, "m1")
        /\ Carries(stats'.last, "m1")
        /\ {stats.last.op, stats'.last.op} = {"send", "push"})
       => /\ stats.last.res = "ok"
          /\ stats'.last.res = "ok"
          /\ StoredWith(messages', TheUser, "m1") = 1]_vars

-----------------------------------------------------------------------------
(* First contact *)

\* C31: two concurrent first-contact requests for the same previously unknown
\* tg_id result in exactly one user row with free-tier defaults, and neither
\* request fails.  (The INSERT of a request that found no row leaves the row of
\* that user stored, and the request goes on with it: it is not answered with
\* server_error.)
C31_FirstContactTwice ==
    [][\A p \in Procs :
          StepOf(p, "insert")
          => /\ procs[p].tg_id \in DOMAIN users'
             /\ After(p).res # "server_error"]_vars

-----------------------------------------------------------------------------
(* Incremental pulls *)

\* C32: if a device pulls and later pulls again with since set to the
\* server_time returned by the first pull, the two responses together contain
\* every message of that user stored at the time of the second pull, including
\* messages pushed by other devices in between.
C32_TwoPullsSeeEverything ==
    [][\A p \in Procs :
          (StepOf(p, "listMessages") /\ procs[p].since # NullTs)
          => \A r \in DOMAIN messages :
                r.tg_id = procs[p].tg_id
                => Copies(procs[p].had, Columns(r))
                      + Copies(procs'[p].messages, Columns(r)) >= 1]_vars

-----------------------------------------------------------------------------
(* The task-state document *)

\* C33: if /api/sync/push answers ok to a request that included a tasks_state
\* object, then a following pull by the same user with no push in between
\* returns exactly that tasks_state.  (The pull answered right after that push
\* returns the document of the push.)
C33_PulledDocumentIsThePushedOne ==
    [][(/\ Replies
        /\ stats.sent > 0
        /\ stats.last.op = "push"
        /\ stats.last.res = "ok"
        /\ stats.last.body.tasks_state \in Docs
        /\ stats'.last.op = "pull"
        /\ stats'.last.tg_id = stats.last.tg_id)
       => stats'.last.tasks_state = stats.last.body.tasks_state]_vars

-----------------------------------------------------------------------------
(* Two users *)

\* What the store holds of the user tg
OwnedBy(tg, us, cs, ms, ts) ==
    [user     |-> IF tg \in DOMAIN us THEN us[tg] ELSE NoUser,
     chats    |-> {r \in cs : r.tg_id = tg},
     messages |-> [r \in {x \in DOMAIN ms : x.tg_id = tg} |-> ms[r]],
     doc      |-> IF tg \in DOMAIN ts THEN ts[tg] ELSE ""]

\* C34: no request made with user id A changes, or returns in its response, any
\* chat, message, task-state document or quota counter belonging to a different
\* user id B, even when A and B use the same chat_id or msg_id values.  (A step
\* of a request with the user id A leaves everything stored of every other user
\* as it was, and what it reads for its response are the row, the chats, the
\* messages and the document stored of A.)
C34_UsersAreIsolated ==
    [][\A p \in Procs :
          (procs[p].pc # "idle" /\ procs'[p] # procs[p])
          => LET A == procs[p].tg_id
             IN  /\ \A B \in Tenants \ {A} :
                        OwnedBy(B, users', chats', messages', tasks')
                           = OwnedBy(B, users, chats, messages, tasks)
                 /\ After(p).user \in {procs[p].user, Lookup(A), users'[A]}
                 /\ StepOf(p, "listChats")
                    => {procs'[p].chats[i] : i \in DOMAIN procs'[p].chats} \subseteq ChatsOf(A)
                 /\ StepOf(p, "listMessages")
                    => \A i \in DOMAIN procs'[p].messages :
                          \E r \in DOMAIN messages :
                             r.tg_id = A /\ Columns(r) = procs'[p].messages[i].row
                 /\ StepOf(p, "loadTasks")
                    => After(p).tasks_state
                          = (IF A \in DOMAIN tasks THEN tasks[A] ELSE EMPTY_STATE)]_vars

\* The user 1 pushed the chat c1 and the message m1, which the user 2 has too,
\* and then pulled: both users' rows are stored, and the pull returned the two
\* messages of the user 1
C34_Witness ==
    /\ stats.sent > 0
    /\ stats.last.op = "pull"
    /\ stats.last.tg_id = 1
    /\ Size(stats.last.messages) = 2
    /\ Len(stats.last.chats) = 1
    /\ stats.last.tasks_state = "d1"
    /\ Stored(messages, 1, "m1") = 1
    /\ Stored(messages, 2, "m1") = 1
    /\ Cardinality(chats) = 2
    /\ tasks = (1 :> "d1") @@ (2 :> "d2")

-----------------------------------------------------------------------------
(* Chats and their messages *)

\* The chats of the user tg that get a message in this step: a stored row with
\* a msg_id that was not stored, or one more row without msg_id
ChatsWithNewMessage(tg) ==
    { r.chat_id : r \in { x \in DOMAIN messages' :
          /\ x.tg_id = tg
          /\ IF x.msg_id # "" THEN Stored(messages, tg, x.msg_id) = 0
             ELSE CopiesIn(x, messages') > CopiesIn(x, messages) } }

\* C35: whenever a new message is stored in chat c of user u, by /api/chat/send,
\* /api/chat/attach or /api/sync/push, a chat row (u, c) exists afterwards and
\* its updated_at was bumped by that operation.  (The step that stores the
\* message leaves the chat row stored and the request at its
\* touchChatUpdatedAt of that chat, and that call sets updated_at to the time of
\* the call.)
C35_NewMessageBumpsChat ==
    [][\A p \in Procs :
          (procs[p].pc # "idle" /\ procs'[p] # procs[p])
          => /\ \A c \in ChatsWithNewMessage(procs[p].tg_id) :
                   /\ \E r \in chats' : chatKey(r) = <<procs[p].tg_id, c>>
                   /\ procs'[p].pc \in {"touchUser", "touchAi"}
                   /\ procs'[p].chat_id = c
             /\ procs[p].pc \in {"touchUser", "touchAi"}
                => \E r \in chats' : /\ chatKey(r) = <<procs[p].tg_id, procs[p].chat_id>>
                                     /\ r.updated_at = now]_vars

-----------------------------------------------------------------------------
(* The calls to the language model *)

\* What the model's API can answer to the attempts of one call
ApiScripts == {"ok", "ok2", "ok3", "busy", "error", "error2", "error3"}

\* /api/chat/send (callGeminiText) and /api/chat/attach with an image
\* (callGeminiParts) of the user in the chat c1, under every script of the API
InitGemini ==
    /\ now = T0
    /\ events = 0
    /\ users = (TheUser :> UserRow("free", NullTs, 3, 3, nextAlmatyMidnightISO(T0)))
    /\ payments = {}
    /\ procs = [p \in Procs |-> Idle]
    /\ sweep = SweepIdle
    /\ stats = [NoStats EXCEPT !.log = TRUE]
    /\ chats = {[tg_id |-> TheUser, chat_id |-> "c1", title |-> DEFAULT_TITLE,
                 emoji |-> DEFAULT_EMOJI, updated_at |-> T0 - 60]}
    /\ messages = EmptyBag
    /\ tasks = <<>>
    /\ client = NoClient

NextGemini ==
    \/ \E g \in ApiScripts : ChatSend(1, JNumber(TheUser), "c1", "a", "m1", g)
    \/ \E g \in ApiScripts : ChatAttach(1, JNumber(TheUser), "c1", "image", g)
    \/ Decrement(1)
    \/ GetChat(1)
    \/ InsertUserMessage(1)
    \/ TouchAfterUser(1)
    \/ LoadChatMessages(1)
    \/ CallGemini(1)
    \/ InsertAiMessage(1)
    \/ TouchAfterAi(1)

SpecGemini == InitGemini /\ [][NextGemini]_vars

\* C36: a call of the model (callGeminiText, callGeminiParts) ends after at
\* most 3 attempts, and a call whose last attempt was not answered with 200 (an
\* error other than 429, or 429 three times) ends in a failure: the request that
\* made the call is answered with an error, never with a success.
C36_FailedModelCallIsAnError ==
    [][\A p \in Procs :
          /\ StepOf(p, "gemini") => After(p).llm - procs[p].llm \in 1..3
          /\ (Replier(p) /\ stats'.last.llm > 0)
             => /\ stats'.last.llm \in 1..3
                /\ upstream(stats'.last.gemini)[stats'.last.llm] # 200
                   => stats'.last.res # "ok"]_vars

-----------------------------------------------------------------------------
(* The client's syncPull against a server that nothing else writes to *)

\* What lsd_chats and lsd_messages hold of the user: chats with and without
\* messages, messages of one instant, and a row stored without msg_id
PulledStores ==
    LET Row(chat, id, role, text, ts) ==
            [tg_id |-> TheUser, chat_id |-> chat, msg_id |-> id, role |-> role,
             content |-> text, created_at |-> ts]
        C(chat, ts) == [tg_id |-> TheUser, chat_id |-> chat, title |-> "t",
                        emoji |-> DEFAULT_EMOJI, updated_at |-> ts]
        m1 == Row("c1", "m1", "user", "a", T0 - 50)
        m2 == Row("c1", "m2", "assistant", "b", T0 - 100)
        m3 == Row("c2", "m3", "user", "a", T0 - 50)
        m4 == Row("c1", "m4", "assistant", "b", T0 - 50)
        n1 == Row("c1", "", "assistant", "b", T0 - 30)
    IN  { [chats |-> {}, messages |-> SetToBag({m1})],
          [chats |-> {C("c1", T0 - 50)}, messages |-> SetToBag({m1, m2})],
          [chats |-> {C("c1", T0 - 50), C("c2", T0 - 60)}, messages |-> SetToBag({m1, m3, m4})],
          [chats |-> {C("c2", T0 - 60)}, messages |-> SetToBag({m2, m4})],
          [chats |-> {C("c1", T0 - 30)}, messages |-> SetToBag({m1, n1})] }

\* What the device holds before: nothing; the chat c1 with the message m1 it
\* sent and pushed; the chat c1 with m1 and a later message it has not pushed
LocalCaches ==
    LET l1 == [msg_id |-> "m1", who |-> "user", text |-> "a", ts |-> T0 - 50]
        l2 == [msg_id |-> "l2", who |-> "ai", text |-> "b", ts |-> T0 - 40]
        Of(ms) == [NoClient EXCEPT
                      !.chatCache = Put(<<>>, "c1", [meta |-> [title |-> "t",
                                                               updatedAt |-> T0 - 40],
                                                     messages |-> ms]),
                      !.chatsIndex = <<"c1">>]
    IN  {NoClient, Of(<<l1>>), Of(<<l1, l2>>)}

InitClient ==
    /\ now = T0
    /\ events = 0
    /\ users = (TheUser :> UserRow("free", NullTs, 3, 3, nextAlmatyMidnightISO(T0)))
    /\ payments = {}
    /\ procs = [p \in Procs |-> Idle]
    /\ sweep = SweepIdle
    /\ stats = [NoStats EXCEPT !.log = TRUE]
    /\ \E st \in PulledStores : chats = st.chats /\ messages = st.messages
    /\ tasks = <<>>
    /\ client \in LocalCaches

NextClient ==
    \/ ClientSyncPull(1)
    \/ ListChats(1)
    \/ ListMessages(1)
    \/ LoadTasksState(1)
    \/ ClientPulled

SpecClient == InitClient /\ [][NextClient]_vars

\* The response of a pull has been merged in this step
Merged == client.pull # 0 /\ client'.pull = 0 /\ stats.last.res = "ok"

\* The chats the response holds messages of
MergedChats == {stats.last.messages[i].row.chat_id : i \in DOMAIN stats.last.messages} \ {""}

\* C37: after syncPull has merged a pull response, no chat's local message
\* list holds two entries with the same msg_id, and the list of every chat the
\* response held messages of is sorted by timestamp, ascending.
C37_MergedListsAreDistinctAndSorted ==
    [][Merged =>
          /\ \A id \in DOMAIN client'.chatCache :
                LET l == client'.chatCache[id].messages
                IN  \A i, j \in DOMAIN l : l[i].msg_id = l[j].msg_id => i = j
          /\ \A id \in MergedChats :
                LET l == client'.chatCache[id].messages
                IN  \A i, j \in DOMAIN l : i < j => l[i].ts <= l[j].ts]_vars

\* A response that held a message the device had, one it had not, and an
\* earlier one has been merged into the chat c1
C37_Witness ==
    /\ client.pull = 0 /\ stats.sent > 0
    /\ "c1" \in DOMAIN client.chatCache
    /\ LET l == client.chatCache["c1"].messages
       IN  /\ Len(l) >= 3
           /\ \E i, j \in DOMAIN l : l[i].msg_id = "m1" /\ l[j].msg_id = "l2"
           /\ l[1].msg_id = "m2"

\* C38: syncPull applied twice to the same unchanged server state leaves the
\* local chat cache as one application left it: the second merge adds nothing,
\* so no stored message of the server is in a chat's local list more than once.
C38_SecondPullChangesNothing ==
    [][(Merged /\ stats.sent >= 2) => client'.chatCache = client.chatCache]_vars

-----------------------------------------------------------------------------
(* The client's debounced push *)

\* The ms between two events of the client
Delays == {300, 649, 650}

InitTimer ==
    /\ now = T0
    /\ events = 0
    /\ users = (TheUser :> UserRow("free", NullTs, 3, 3, nextAlmatyMidnightISO(T0)))
    /\ payments = {}
    /\ procs = [p \in Procs |-> Idle]
    /\ sweep = SweepIdle
    /\ stats = [NoStats EXCEPT !.log = TRUE]
    /\ chats = {}
    /\ messages = EmptyBag
    /\ tasks = <<>>
    /\ client \in LocalCaches

NextTimer ==
    \/ ScheduleSyncPush
    \/ \E d \in Delays : ClientWait(d)
    \/ SyncPushFires(1)
    \/ UpsertChats(1)
    \/ UpsertMessages(1)
    \/ SaveTasksState(1)

SpecTimer == InitTimer /\ [][NextTimer]_vars

\* The calls of scheduleSyncPush that end a burst: the last call so far, and
\* every call that the next one follows after 650 ms or more
BurstEnds ==
    {i \in DOMAIN client.calls :
        i = Len(client.calls) \/ client.calls[i + 1] - client.calls[i] >= SYNC_PUSH_DELAY}

PushesAt(t) == Cardinality({j \in DOMAIN client.pushes : client.pushes[j] = t})

\* C39: a burst of scheduleSyncPush calls, each less than 650 ms after the one
\* before, results in exactly one syncPush, started 650 ms after the last call
\* of the burst, and at most one push timer is pending at any time.  (Every
\* syncPush starts 650 ms after the call that ends a burst; no burst has two;
\* and once its 650 ms are over a burst has one.)
C39_OnePushPerBurst ==
    /\ Cardinality(client.timers) <= 1
    /\ \A j \in DOMAIN client.pushes :
          \E i \in BurstEnds : client.pushes[j] = client.calls[i] + SYNC_PUSH_DELAY
    /\ \A i \in BurstEnds :
          /\ PushesAt(client.calls[i] + SYNC_PUSH_DELAY) <= 1
          /\ client.clock > client.calls[i] + SYNC_PUSH_DELAY
             => PushesAt(client.calls[i] + SYNC_PUSH_DELAY) = 1

\* Two calls 649 ms apart and a third one later: one syncPush 650 ms after the
\* second call, and a timer pending for the third
C39_Witness ==
    /\ Len(client.calls) = 3
    /\ client.calls[2] - client.calls[1] = 649
    /\ client.pushes = <<client.calls[2] + SYNC_PUSH_DELAY>>
    /\ Cardinality(client.timers) = 1

-----------------------------------------------------------------------------
(* Units spent and the model *)

\* consumeQuota of the request q wrote a decrement
Spent(q) == q.granted /\ q.arg.f # "" /\ q.arg.f = leftField(q.kind)

\* C40: every unit granted by consume in /api/plan/create or /api/chat/attach
\* is followed by an invocation of the language model in the same request: no
\* request that spent a unit is answered without having called the model.
C40_SpentUnitReachesModel ==
    [][\A p \in Procs :
          (Replier(p) /\ stats'.last.op \in {"plan", "attach"} /\ Spent(stats'.last))
          => stats'.last.llm > 0]_vars

====
